---- MODULE Spec2Model ----
(***************************************************************************)
(* State-machine model of the message-dispatch services of                 *)
(* cosmos-system-5: OrganizationService, TreasuryService,                  *)
(* DevelopmentService, SalesService and MarketService.                     *)
(*                                                                         *)
(* One service process is modelled per behaviour: serviceName is the       *)
(* config.serviceName the process was constructed with, and only the       *)
(* handlers of that service class can run.  Scores that the code keeps as  *)
(* floats in [0,1] are kept as integers in hundredths (One = 1.0).         *)
(* Date.now() is the variable now; every read of the clock inside one      *)
(* handler run returns the same value, and the clock advances between two  *)
(* process calls.  Generated ids `<prefix>-${Date.now()}` are the pairs    *)
(* <<prefix, time>>.  A JS Map is a sequence of entries in insertion       *)
(* order, each entry carrying its key in the field id.                     *)
(***************************************************************************)
EXTENDS Integers, Sequences, FiniteSets, TLC

VARIABLES
    serviceName,        \* this.config.serviceName of the running process
    now,                \* Date.now()
    calls,              \* how many calls have been made on the service
    op,                 \* the method last called: construct, process, ...
    inflight,           \* the process() invocations suspended at an await
    req,                \* the ServiceMessage last handed to process()
    resp,               \* what that process() call produced
    res,                \* the HTTP response the host's route handler sent
    organizations,      \* OrganizationService.organizations
    coordinations,      \* OrganizationService.coordinations
    maintenanceTasks,   \* OrganizationService.maintenanceTasks
    systemHealth,       \* OrganizationService.systemHealth
    motorMemoryStore,   \* TreasuryService.motorMemoryStore
    learnedSkills,      \* TreasuryService.learnedSkills
    accessLog,          \* TreasuryService.accessLog
    treasuryShared,     \* TreasuryService.sharedParasympatheticState
    developmentPlans,   \* DevelopmentService.developmentPlans
    optimizationHistory, \* DevelopmentService.optimizationHistory
    resourceAllocations, \* DevelopmentService.resourceAllocations
    devShared,          \* DevelopmentService.sharedParasympatheticState
    marketSegments,     \* MarketService.marketSegments
    externalInterfaces, \* MarketService.externalInterfaces
    feedbackHistory,    \* MarketService.feedbackHistory
    marketIntelligence, \* MarketService.marketIntelligence
    qualityThresholds,  \* SalesService.qualityThresholds
    promotionChannels,  \* SalesService.promotionChannels
    assessmentHistory   \* SalesService.assessmentHistory

orgVars == <<organizations, coordinations, maintenanceTasks, systemHealth>>
treasuryVars == <<motorMemoryStore, learnedSkills, accessLog, treasuryShared>>
devVars == <<developmentPlans, optimizationHistory, resourceAllocations, devShared>>
marketVars == <<marketSegments, externalInterfaces, feedbackHistory, marketIntelligence>>
salesVars == <<qualityThresholds, promotionChannels, assessmentHistory>>
storeVars == <<orgVars, treasuryVars, devVars, marketVars, salesVars>>
vars == <<serviceName, now, calls, op, inflight, req, resp, res, storeVars>>

----
\* Bounds of the model.
MaxClock == 1
MaxCalls == 3
MaxPushes == 1100
MaxInFlight == 2
MaxOptimizations == 5
MaxUpdates == 5
MaxFeedback == 5

\* Program constants.
One == 100
NextExecutionDelay == 60000
ScheduleDelay == 3600000
RecentMaintenanceCount == 5
RecentAccessCount == 100
MaxAlternatives == 5

----
\* Generic helpers.
Min(a, b) == IF a < b THEN a ELSE b
Max(a, b) == IF a > b THEN a ELSE b

\* payload is an open mapping: a field is present or absent.
EmptyPayload == [f \in {} |-> TRUE]
Has(p, f) == f \in DOMAIN p
Get(p, f, default) == IF Has(p, f) THEN p[f] ELSE default

\* `<prefix>-${Date.now()}`
Id(prefix, t) == <<prefix, t>>
UnknownId == <<"nonexistent-id", 0>>

\* A Date | null field: null is the empty sequence, a Date the one-element one.
Null == <<>>
Date(t) == <<t>>

\* JS Map: has / get / set / values, insertion order kept, set on an
\* existing key replaces the value in place.
MapHas(m, k) == \E i \in 1..Len(m) : m[i].id = k
MapGet(m, k) == m[CHOOSE i \in 1..Len(m) : m[i].id = k]
\* Faulty variants: set always appends; set of a new key evicts the oldest
\* entry.
MapSetAppending(m, v) == Append(m, v)
MapSetEvicting(m, v) ==
    IF MapHas(m, v.id)
    THEN [i \in 1..Len(m) |-> IF m[i].id = v.id THEN v ELSE m[i]]
    ELSE IF m = <<>> THEN <<v>> ELSE Append(Tail(m), v)
MapSet(m, v) ==
    IF MapHas(m, v.id)
    THEN [i \in 1..Len(m) |-> IF m[i].id = v.id THEN v ELSE m[i]]
    ELSE Append(m, v)
MapKeys(m) == {m[i].id : i \in 1..Len(m)}

\* Array.prototype.slice(0, n) and Array.prototype.slice(-n)
SliceFirst(s, n) == SubSeq(s, 1, Min(n, Len(s)))
SliceLast(s, n) == SubSeq(s, Max(1, Len(s) - n + 1), Len(s))

\* A string that the code searches or lower-cases is the sequence of its
\* characters.  String.prototype.toLowerCase and String.prototype.includes:
LowerChar(c) ==
    CASE c = "A" -> "a" [] c = "B" -> "b" [] c = "C" -> "c" [] c = "I" -> "i"
      [] c = "S" -> "s" [] OTHER -> c
toLowerCase(str) == [i \in 1..Len(str) |-> LowerChar(str[i])]
includes(str, sub) ==
    \E k \in 0..(Len(str) - Len(sub)) :
        \A i \in 1..Len(sub) : str[k + i] = sub[i]

\* Map.prototype.set on a map keyed by plain strings, kept as a record.
Put(m, key, value) ==
    [k \in DOMAIN m \cup {key} |-> IF k = key THEN value ELSE m[k]]

\* The clock: it advances by a millisecond or jumps by a minute; the model
\* follows it for MaxClock such advances.
InClock(t) == (t \div NextExecutionDelay) + (t % NextExecutionDelay) <= MaxClock

\* createMessage(type, payload, source, destination) of the shared library.
\* The fresh id and the timestamp it assigns are left out: nothing reads them.
createMessage(type, payload, source, destination) ==
    [kind |-> "envelope", type |-> type, payload |-> payload,
     source |-> source, destination |-> destination]

Idle == [kind |-> "idle"]
ReturnedNull == [kind |-> "null"]
Thrown == [kind |-> "throw"]

Gateway == "api-gateway"
Message(type, payload) == [type |-> type, payload |-> payload, source |-> Gateway]

----
\* OrganizationService

OrganizationServiceName == "organization-service"

DefaultComponents ==
    << [id |-> "coord-1", name |-> "coordination-hub", role |-> "coordinator",
        dependencies |-> <<>>, status |-> "operational"],
       [id |-> "worker-1", name |-> "background-worker", role |-> "worker",
        dependencies |-> <<"coord-1">>, status |-> "operational"],
       [id |-> "monitor-1", name |-> "health-monitor", role |-> "monitor",
        dependencies |-> <<"coord-1">>, status |-> "operational"] >>

\* components is a JSON value: a list of partial components, or something
\* else (a number, a string, an object), on which .map is not a function.
JsList(items) == [isList |-> TRUE, items |-> items]
JsOther == [isList |-> FALSE]

createOrganizationThrows(payload) ==
    Has(payload, "components") /\ ~payload.components.isList

createOrganization(name, type, components, tId, tUpdated) ==
    LET orgComponents ==
            [i \in 1..Len(components) |->
                [id |-> Get(components[i], "id", <<"comp", tId, i - 1>>),
                 name |-> Get(components[i], "name", <<"component", i - 1>>),
                 role |-> Get(components[i], "role", "worker"),
                 dependencies |-> Get(components[i], "dependencies", <<>>),
                 status |-> "operational"]]
    IN  [id |-> Id("org", tId),
         name |-> name,
         type |-> type,
         components |-> IF Len(orgComponents) = 0 THEN DefaultComponents
                        ELSE orgComponents,
         status |-> "active",
         metrics |-> [efficiency |-> 85, coordination |-> 90,
                      responsiveness |-> 80, stability |-> 95],
         lastUpdated |-> tUpdated]

createBackgroundCoordination(coordinationType, participants, priority, frequency, tNow, tId) ==
    [id |-> Id("coord", tId),
     coordinationType |-> coordinationType,
     participants |-> participants,
     priority |-> priority,
     schedule |-> [frequency |-> frequency,
                   nextExecution |-> tNow + NextExecutionDelay,
                   lastExecution |-> Null,
                   executionCount |-> 0],
     results |-> <<>>]

DefaultParticipants == <<"monitoring-service", "state-management-service", "process-director">>

scheduleMaintenance(maintenanceType, targets, payload, tId, tSched) ==
    [id |-> Id("maint", tId),
     maintenanceType |-> maintenanceType,
     targets |-> targets,
     status |-> "scheduled",
     scheduledAt |-> Get(payload, "scheduledTime", tSched + ScheduleDelay),
     completedAt |-> Null,
     results |-> [success |-> FALSE, itemsProcessed |-> 0, issuesFound |-> 0,
                  issuesResolved |-> 0, recommendations |-> <<>>]]

\* The two draws of Math.random() in executeMaintenance:
\* issuesFound = floor(random * 3), and floor(random * (issuesFound + 1)).
IssuesFoundDraws == 0..2
IssuesResolvedDraws(issuesFound) == 0..issuesFound

\* Faulty variant: success is reported whatever was resolved.
maintenanceResultsAlwaysSuccess(maintenance, issuesFound, resolvedDraw) ==
    [success |-> TRUE,
     itemsProcessed |-> Len(maintenance.targets) * 5,
     issuesFound |-> issuesFound,
     issuesResolved |-> Min(issuesFound, resolvedDraw),
     recommendations |-> <<"Schedule follow-up maintenance in 24 hours">>]

maintenanceResults(maintenance, issuesFound, resolvedDraw) ==
    LET itemsProcessed == Len(maintenance.targets) * 5
        issuesResolved == Min(issuesFound, resolvedDraw)
        r1 == IF issuesFound > issuesResolved
              THEN <<"Manual intervention required for unresolved issues">>
              ELSE <<>>
        r2 == IF itemsProcessed > 10
              THEN Append(r1, "Consider optimizing maintenance scope for efficiency")
              ELSE r1
    IN  [success |-> issuesResolved >= issuesFound,
         itemsProcessed |-> itemsProcessed,
         issuesFound |-> issuesFound,
         issuesResolved |-> issuesResolved,
         recommendations |-> Append(r2, "Schedule follow-up maintenance in 24 hours")]

\* Faulty variant: the completion time is never recorded.
executeMaintenanceNoCompletedAt(maintenance, results, tDone) ==
    [maintenance EXCEPT
        !.status = IF results.success THEN "completed" ELSE "failed",
        !.results = results]

executeMaintenance(maintenance, results, tDone) ==
    LET inProgress == [maintenance EXCEPT !.status = "in-progress"]
    IN  [inProgress EXCEPT
            !.status = IF results.success THEN "completed" ELSE "failed",
            !.completedAt = Date(tDone),
            !.results = results]

Sum4(m) == m.efficiency + m.coordination + m.responsiveness + m.stability

RECURSIVE SumMetrics(_)
SumMetrics(orgs) ==
    IF Len(orgs) = 0 THEN 0 ELSE Sum4(Head(orgs).metrics) + SumMetrics(Tail(orgs))

\* (avgEfficiency + avgCoordination + avgResponsiveness + avgStability) / 4,
\* kept as the exact fraction sum / count.
calculateOverallHealth(orgs) ==
    IF Len(orgs) = 0 THEN [sum |-> One, count |-> 1]
    ELSE [sum |-> SumMetrics(orgs), count |-> 4 * Len(orgs)]

OrgSummary(o) ==
    [id |-> o.id, name |-> o.name, type |-> o.type, status |-> o.status,
     metrics |-> o.metrics]

getOverallOrganizationStatus(includeComponents, tNow) ==
    LET IsActive(o) == o.status = "active"
        IsScheduled(m) == m.status = "scheduled"
        IsCompleted(m) == m.status = "completed"
        IsLive(c) == c.schedule.executionCount > 0 \/ c.schedule.nextExecution > tNow
    IN  [summary |->
            [totalOrganizations |-> Len(organizations),
             activeOrganizations |-> Len(SelectSeq(organizations, IsActive)),
             totalCoordinations |-> Len(coordinations),
             pendingMaintenance |-> Len(SelectSeq(maintenanceTasks, IsScheduled)),
             completedMaintenance |-> Len(SelectSeq(maintenanceTasks, IsCompleted)),
             overallHealth |-> calculateOverallHealth(organizations)],
         organizations |->
            IF includeComponents THEN organizations
            ELSE [i \in 1..Len(organizations) |-> OrgSummary(organizations[i])],
         activeCoordinations |-> SelectSeq(coordinations, IsLive),
         recentMaintenance |-> SliceLast(maintenanceTasks, RecentMaintenanceCount),
         systemHealthMetrics |-> systemHealth]

\* optimizeOrganization on a found organization: the improvements and the
\* organization it leaves in the store.
\* Faulty variant: the improvements are applied whatever the metrics are.
metricsImprovementAlways(m) ==
    [efficiency |-> 5, coordination |-> 3, responsiveness |-> 4, stability |-> 2]

metricsImprovement(m) ==
    [efficiency |-> IF m.efficiency < 90 THEN 5 ELSE 0,
     coordination |-> IF m.coordination < 90 THEN 3 ELSE 0,
     responsiveness |-> IF m.responsiveness < 90 THEN 4 ELSE 0,
     stability |-> IF m.stability < 95 THEN 2 ELSE 0]

appliedOptimizations(m) ==
    (IF m.efficiency < 90 THEN <<"Streamline component communication paths">> ELSE <<>>)
    \o (IF m.coordination < 90 THEN <<"Enhance inter-component coordination protocols">> ELSE <<>>)
    \o (IF m.responsiveness < 90 THEN <<"Reduce latency in background operations">> ELSE <<>>)
    \o (IF m.stability < 95 THEN <<"Implement additional failover mechanisms">> ELSE <<>>)

SystemWideOptimizations ==
    <<"System-wide organization review completed",
      "Background coordination patterns analyzed",
      "Maintenance schedules optimized">>

\* Faulty variant: the metrics are capped at the threshold 0.9.
improvedMetricsCappedAtThreshold(m) ==
    LET d == metricsImprovement(m)
    IN  [efficiency |-> Min(90, m.efficiency + d.efficiency),
         coordination |-> Min(90, m.coordination + d.coordination),
         responsiveness |-> Min(90, m.responsiveness + d.responsiveness),
         stability |-> Min(90, m.stability + d.stability)]

\* The metrics after `Math.min(1, metric + (improvement || 0))`.
improvedMetrics(m) ==
    LET d == metricsImprovement(m)
    IN  [efficiency |-> Min(One, m.efficiency + d.efficiency),
         coordination |-> Min(One, m.coordination + d.coordination),
         responsiveness |-> Min(One, m.responsiveness + d.responsiveness),
         stability |-> Min(One, m.stability + d.stability)]

\* Faulty variant: the status is not set back after the improvements.
optimizeOrganizationStaysOptimizing(org, tUpdated) ==
    LET optimizing == [org EXCEPT !.status = "optimizing"]
    IN  [optimizing EXCEPT !.metrics = improvedMetrics(optimizing.metrics),
                           !.lastUpdated = tUpdated]

\* The organization is marked 'optimizing', improved, and marked 'active'
\* again, all in one synchronous function.
optimizeOrganization(org, tUpdated) ==
    LET optimizing == [org EXCEPT !.status = "optimizing"]
        improved == [optimizing EXCEPT !.metrics = improvedMetrics(optimizing.metrics)]
    IN  [improved EXCEPT !.status = "active", !.lastUpdated = tUpdated]

\* Faulty variant: every stored task is counted as pending.
syncWithStateManagementCountingAll(syncType, tNow) ==
    [syncType |-> syncType,
     timestamp |-> tNow,
     dataSynced |->
        [organizations |->
            [i \in 1..Len(organizations) |->
                [id |-> organizations[i].id, name |-> organizations[i].name,
                 status |-> organizations[i].status,
                 metrics |-> organizations[i].metrics]],
         activeCoordinations |-> Len(coordinations),
         pendingMaintenance |-> Len(maintenanceTasks),
         systemHealthMetrics |-> systemHealth],
     targetService |-> "state-management-service",
     bidirectional |-> TRUE,
     nextScheduledSync |-> tNow + 300000]

\* The state handed to the state-management service: a summary of every
\* organization, the number of coordinations and of scheduled tasks.
syncWithStateManagement(syncType, tNow) ==
    LET IsScheduled(m) == m.status = "scheduled"
    IN  [syncType |-> syncType,
         timestamp |-> tNow,
         dataSynced |->
            [organizations |->
                [i \in 1..Len(organizations) |->
                    [id |-> organizations[i].id, name |-> organizations[i].name,
                     status |-> organizations[i].status,
                     metrics |-> organizations[i].metrics]],
             activeCoordinations |-> Len(coordinations),
             pendingMaintenance |-> Len(SelectSeq(maintenanceTasks, IsScheduled)),
             systemHealthMetrics |-> systemHealth],
         targetService |-> "state-management-service",
         bidirectional |-> TRUE,
         nextScheduledSync |-> tNow + 300000]

\* The switch of OrganizationService.process.
\* Faulty variant: the switch also takes a type written in lower case.
OrgDispatchIgnoringCase(type) ==
    CASE type = "CREATE_ORGANIZATION" -> "handleCreateOrganization"
      [] type = "COORDINATE_BACKGROUND" -> "handleBackgroundCoordination"
      [] type = "SCHEDULE_MAINTENANCE" -> "handleScheduleMaintenance"
      [] type = "EXECUTE_MAINTENANCE" -> "handleExecuteMaintenance"
      [] type = "GET_ORGANIZATION_STATUS" -> "handleGetOrganizationStatus"
      [] type = "OPTIMIZE_ORGANIZATION" -> "handleOptimizeOrganization"
      [] type = "SYNC_WITH_STATE_MANAGEMENT" -> "handleSyncWithStateManagement"
      [] type = "execute_maintenance" -> "handleExecuteMaintenance"
      [] OTHER -> "default"

\* The switch of process: the case a type selects.
OrgDispatch(type) ==
    CASE type = "CREATE_ORGANIZATION" -> "handleCreateOrganization"
      [] type = "COORDINATE_BACKGROUND" -> "handleBackgroundCoordination"
      [] type = "SCHEDULE_MAINTENANCE" -> "handleScheduleMaintenance"
      [] type = "EXECUTE_MAINTENANCE" -> "handleExecuteMaintenance"
      [] type = "GET_ORGANIZATION_STATUS" -> "handleGetOrganizationStatus"
      [] type = "OPTIMIZE_ORGANIZATION" -> "handleOptimizeOrganization"
      [] type = "SYNC_WITH_STATE_MANAGEMENT" -> "handleSyncWithStateManagement"
      [] OTHER -> "default"

\* initializeOrganizationFramework, run by the constructor.
InitOrganization ==
    /\ organizations =
          << createOrganization("autonomic-core", "coordination", <<>>, 0, 0) >>
    /\ coordinations =
          << createBackgroundCoordination("system-health", DefaultParticipants,
                                          "high", "1m", 0, 0) >>
    /\ maintenanceTasks = <<>>
    /\ systemHealth = [k \in {"autonomic-triad", "background-processes",
                              "coordination-efficiency", "maintenance-status"} |->
                          CASE k = "autonomic-triad" -> 95
                            [] k = "background-processes" -> 90
                            [] k = "coordination-efficiency" -> 85
                            [] OTHER -> One]

----
\* TreasuryService

TreasuryServiceName == "treasury-service"

BasicMotorControl == <<"b", "a", "s", "i", "c", "-", "m", "o", "t", "o", "r", "-", "c", "o", "n", "t", "r", "o", "l">>
SensoryMotorCoordination == <<"s", "e", "n", "s", "o", "r", "y", "-", "m", "o", "t", "o", "r", "-", "c", "o", "o", "r", "d", "i", "n", "a", "t", "i", "o", "n">>
AdaptiveResponse == <<"a", "d", "a", "p", "t", "i", "v", "e", "-", "r", "e", "s", "p", "o", "n", "s", "e">>
ReflexAction == <<"r", "e", "f", "l", "e", "x", "-", "a", "c", "t", "i", "o", "n">>
UnnamedSkill == <<"u", "n", "n", "a", "m", "e", "d", "-", "s", "k", "i", "l", "l">>
DevSkillPrefix == <<"d", "e", "v", "-", "s", "k", "i", "l", "l", "-">>
Undefined == <<"u", "n", "d", "e", "f", "i", "n", "e", "d">>
PlanOne == <<"p", "1">>
Overdrive == <<"o", "v", "e", "r", "d", "r", "i", "v", "e">>
BasicQuery == <<"B", "A", "S", "I", "C">>

\* skillName, skillType and proficiency arrive with their defaults applied
\* (skillName || 'unnamed-skill', skillType || 'motor', proficiency ?? 0.5).
storeMotorMemory(skillName, skillType, pattern, proficiency, metadata, t) ==
    [id |-> Id("mm", t),
     skillName |-> skillName,
     skillType |-> skillType,
     pattern |-> [sequence |-> Get(pattern, "sequence", <<>>),
                  timing |-> Get(pattern, "timing", <<>>),
                  precision |-> Get(pattern, "precision", 70),
                  adaptability |-> Get(pattern, "adaptability", 50)],
     proficiency |-> proficiency,
     lastAccessed |-> t,
     accessCount |-> 0,
     metadata |-> [createdAt |-> t,
                   developmentPlanId |-> Get(metadata, "developmentPlanId", Null),
                   sourceTriad |-> Get(metadata, "sourceTriad", "somatic"),
                   validatedBy |-> Get(metadata, "validatedBy", <<>>),
                   dependencies |-> Get(metadata, "dependencies", <<>>)]]

\* Faulty variant: the name search compares the names as they are spelt.
RECURSIVE SearchByNameCaseSensitive(_, _, _, _)
SearchByNameCaseSensitive(mems, i, query, best) ==
    IF i > Len(mems) THEN best
    ELSE IF includes(mems[i].skillName, query)
              /\ (best = 0 \/ mems[i].proficiency > mems[best].proficiency)
         THEN SearchByNameCaseSensitive(mems, i + 1, query, i)
         ELSE SearchByNameCaseSensitive(mems, i + 1, query, best)

\* The loop of retrieveSkill over the store: the index of the memory it
\* settles on (0 for none), and the names it collects as alternatives.
RECURSIVE SearchByName(_, _, _, _)
SearchByName(mems, i, query, best) ==
    IF i > Len(mems) THEN best
    ELSE IF includes(toLowerCase(mems[i].skillName), toLowerCase(query))
              /\ (best = 0 \/ mems[i].proficiency > mems[best].proficiency)
         THEN SearchByName(mems, i + 1, query, i)
         ELSE SearchByName(mems, i + 1, query, best)

\* `skillName && ...`: a name is searched for when it is given and not ''.
HasSkillName(payload) == Has(payload, "skillName") /\ Len(payload.skillName) > 0

Alternatives(mems, payload) ==
    LET Named(m) == HasSkillName(payload)
                    /\ includes(toLowerCase(m.skillName), toLowerCase(payload.skillName))
        Typed(m) == Has(payload, "skillType") /\ m.skillType = payload.skillType
        Listed(m) == Named(m) \/ Typed(m)
        hits == SelectSeq(mems, Listed)
    IN  [i \in 1..Len(hits) |-> hits[i].skillName]

\* Faulty variant: the name is searched first, the id only when no name hits.
FoundIndexNameFirst(mems, payload) ==
    IF HasSkillName(payload) /\ SearchByName(mems, 1, payload.skillName, 0) # 0
    THEN SearchByName(mems, 1, payload.skillName, 0)
    ELSE IF Has(payload, "skillId") /\ MapHas(mems, payload.skillId)
         THEN CHOOSE i \in 1..Len(mems) : mems[i].id = payload.skillId
         ELSE 0

FoundIndex(mems, payload) ==
    IF Has(payload, "skillId") /\ MapHas(mems, payload.skillId)
    THEN CHOOSE i \in 1..Len(mems) : mems[i].id = payload.skillId
    ELSE IF HasSkillName(payload)
         THEN SearchByName(mems, 1, payload.skillName, 0)
         ELSE 0

\* The store after retrieveSkill: lastAccessed and accessCount of the found
\* memory are updated.
Accessed(mems, k, t) ==
    [i \in 1..Len(mems) |->
        IF i = k THEN [mems[i] EXCEPT !.lastAccessed = t,
                                      !.accessCount = mems[i].accessCount + 1]
        ELSE mems[i]]

retrieveSkill(mems, payload, t) ==
    LET k == FoundIndex(mems, payload)
        after == Accessed(mems, k, t)
        byId == Has(payload, "skillId") /\ MapHas(mems, payload.skillId)
        NotFound(a) == k = 0 \/ a # mems[k].skillName
        alternatives == IF byId THEN <<>> ELSE Alternatives(mems, payload)
    IN  [skill |-> IF k = 0 THEN Null ELSE <<after[k]>>,
         retrievalTime |-> 0,
         confidence |-> IF k = 0 THEN 0 ELSE after[k].proficiency,
         alternatives |-> SliceFirst(SelectSeq(alternatives, NotFound), MaxAlternatives)]

DefaultIntegrations ==
    << [targetService |-> "motor-control", integrationType |-> "motor", strength |-> 70],
       [targetService |-> "processing-service", integrationType |-> "behavioral",
        strength |-> 50] >>

registerLearnedSkill(payload, t) ==
    [id |-> Id("ls", t),
     name |-> Get(payload, "name", "unnamed-learned-skill"),
     category |-> Get(payload, "category", "general"),
     proficiencyLevel |-> Get(payload, "proficiencyLevel", 50),
     patterns |-> Get(payload, "patterns", <<>>),
     integrations |-> Get(payload, "integrations", DefaultIntegrations)]

\* Math.max(0, Math.min(1, newProficiency ?? memory.proficiency))
updatedProficiency(memory, payload) ==
    Max(0, Min(One, Get(payload, "newProficiency", memory.proficiency)))

getSkillInventory(payload) ==
    LET AtLeast(m) == m.proficiency >= payload.minProficiency
        InCategory(sk) == sk.category = payload.category
        LevelAtLeast(sk) == sk.proficiencyLevel >= payload.minProficiency
        Succeeded(a) == a.success
        byCategory == IF Has(payload, "category")
                      THEN SelectSeq(learnedSkills, InCategory) ELSE learnedSkills
        filteredMemories == IF Has(payload, "minProficiency")
                            THEN SelectSeq(motorMemoryStore, AtLeast)
                            ELSE motorMemoryStore
        filteredSkills == IF Has(payload, "minProficiency")
                          THEN SelectSeq(byCategory, LevelAtLeast) ELSE byCategory
        recentAccess == SliceLast(accessLog, RecentAccessCount)
    IN  [totalMotorMemories |-> Len(motorMemoryStore),
         totalLearnedSkills |-> Len(learnedSkills),
         filteredMotorMemories |-> Len(filteredMemories),
         filteredLearnedSkills |-> Len(filteredSkills),
         motorMemories |->
            [i \in 1..Len(filteredMemories) |->
                [id |-> filteredMemories[i].id,
                 name |-> filteredMemories[i].skillName,
                 type |-> filteredMemories[i].skillType,
                 proficiency |-> filteredMemories[i].proficiency,
                 accessCount |-> filteredMemories[i].accessCount]],
         learnedSkills |->
            [i \in 1..Len(filteredSkills) |->
                [id |-> filteredSkills[i].id,
                 name |-> filteredSkills[i].name,
                 category |-> filteredSkills[i].category,
                 proficiency |-> filteredSkills[i].proficiencyLevel]],
         accessStatistics |->
            [totalAccesses |-> Len(recentAccess),
             successRate |-> [count |-> Len(SelectSeq(recentAccess, Succeeded)),
                              of |-> Max(Len(recentAccess), 1)]],
         parasympatheticStatus |-> treasuryShared.status]

\* The switch of TreasuryService.process.
TreasuryDispatch(type) ==
    CASE type = "STORE_MOTOR_MEMORY" -> "handleStoreMotorMemory"
      [] type = "RETRIEVE_SKILL" -> "handleRetrieveSkill"
      [] type = "REGISTER_LEARNED_SKILL" -> "handleRegisterLearnedSkill"
      [] type = "UPDATE_PROFICIENCY" -> "handleUpdateProficiency"
      [] type = "GET_SKILL_INVENTORY" -> "handleGetSkillInventory"
      [] type = "RECEIVE_FROM_DEVELOPMENT" -> "handleReceiveFromDevelopment"
      [] type = "INTEGRATE_SKILL" -> "handleSkillIntegration"
      [] OTHER -> "default"

\* initializeTreasuryFramework, run by the constructor: the four default
\* skills are stored one after the other, each under `mm-${Date.now()}`; the
\* clock ticks at most once between two of them, and the constructor returns
\* at time 0.
SeedTimes ==
    {<<0 - (a + b + c), 0 - (b + c), 0 - c, 0>> : a \in 0..1, b \in 0..1, c \in 0..1}

DefaultSkills ==
    << [name |-> BasicMotorControl, type |-> "motor", proficiency |-> 90],
       [name |-> SensoryMotorCoordination, type |-> "procedural", proficiency |-> 80],
       [name |-> AdaptiveResponse, type |-> "behavioral", proficiency |-> 70],
       [name |-> ReflexAction, type |-> "reflexive", proficiency |-> 95] >>

RECURSIVE SeedDefaults(_, _, _)
SeedDefaults(store, times, i) ==
    IF i > Len(DefaultSkills) THEN store
    ELSE SeedDefaults(
            MapSet(store, storeMotorMemory(DefaultSkills[i].name, DefaultSkills[i].type,
                                           EmptyPayload, DefaultSkills[i].proficiency,
                                           EmptyPayload, times[i])),
            times, i + 1)

InitTreasury ==
    /\ \E times \in SeedTimes : motorMemoryStore = SeedDefaults(<<>>, times, 1)
    /\ learnedSkills = <<>>
    /\ accessLog = <<>>
    /\ treasuryShared =
          [status |-> "active",
           initialized |-> [timestamp |-> 0, receivingFrom |-> "development-service",
                            connectedTriads |-> <<"somatic", "autonomic">>]]

----
\* Messages the host may hand to OrganizationService.process: every
\* recognized type with some payloads, and types the switch does not list.
OrgTypes ==
    {"CREATE_ORGANIZATION", "COORDINATE_BACKGROUND", "SCHEDULE_MAINTENANCE",
     "EXECUTE_MAINTENANCE", "GET_ORGANIZATION_STATUS", "OPTIMIZE_ORGANIZATION",
     "SYNC_WITH_STATE_MANAGEMENT"}

OrgUnrecognizedTypes == {"", "execute_maintenance", "EXECUTE"}

OrgPayloads(type) ==
    CASE type = "CREATE_ORGANIZATION" ->
            {EmptyPayload, [name |-> "ops", components |-> JsOther]}
      [] type = "COORDINATE_BACKGROUND" ->
            {EmptyPayload}
      [] type = "SCHEDULE_MAINTENANCE" ->
            {EmptyPayload, [targets |-> <<"a", "b", "c">>]}
      [] type = "EXECUTE_MAINTENANCE" ->
            {EmptyPayload}
            \cup {[maintenanceId |-> k] : k \in MapKeys(maintenanceTasks) \cup {UnknownId}}
      [] type = "GET_ORGANIZATION_STATUS" ->
            {EmptyPayload, [includeComponents |-> TRUE]}
            \cup {[organizationId |-> k] : k \in MapKeys(organizations) \cup {UnknownId}}
      [] type = "OPTIMIZE_ORGANIZATION" ->
            {EmptyPayload}
            \cup {[organizationId |-> k] : k \in MapKeys(organizations) \cup {UnknownId}}
      [] type = "SYNC_WITH_STATE_MANAGEMENT" ->
            {EmptyPayload}
      [] OTHER ->
            {[maintenanceId |-> UnknownId]}

OrgMessages ==
    UNION {{Message(type, p) : p \in OrgPayloads(type)} :
             type \in OrgTypes \cup OrgUnrecognizedTypes}

\* What every handler's response payload ends with.
Stamp(t0, t1) == [processingTime |-> t1 - t0, source |-> serviceName]

Reply(msg, type, payload) ==
    createMessage(type, payload, serviceName, msg.source)

handleCreateOrganization(msg) ==
    /\ OrgDispatch(msg.type) = "handleCreateOrganization"
    /\ req' = msg
    /\ LET t1 == now
           tId == now IN
        LET p == msg.payload IN
        IF createOrganizationThrows(p)
        THEN /\ resp' = Thrown
             /\ now' = t1
             /\ UNCHANGED orgVars
        ELSE LET organization ==
                    createOrganization(Get(p, "name", "system-organization"),
                                       Get(p, "type", "coordination"),
                                       Get(p, "components", JsList(<<>>)).items,
                                       tId, tId)
             IN  /\ organizations' = MapSet(organizations, organization)
                 /\ resp' = Reply(msg, "ORGANIZATION_CREATED",
                                  [organization |-> organization] @@ Stamp(now, t1))
                 /\ now' = t1
                 /\ UNCHANGED <<coordinations, maintenanceTasks, systemHealth>>

handleBackgroundCoordination(msg) ==
    /\ OrgDispatch(msg.type) = "handleBackgroundCoordination"
    /\ req' = msg
    /\ LET t1 == now
           tId == now IN
        LET p == msg.payload
            coordination ==
                createBackgroundCoordination(Get(p, "coordinationType", "general"),
                                             Get(p, "participants", DefaultParticipants),
                                             Get(p, "priority", "medium"),
                                             Get(p, "frequency", "5m"),
                                             now, tId)
        IN  /\ coordinations' = MapSet(coordinations, coordination)
            /\ resp' = Reply(msg, "BACKGROUND_COORDINATION_CREATED",
                             [coordination |-> coordination] @@ Stamp(now, t1))
            /\ now' = t1
            /\ UNCHANGED <<organizations, maintenanceTasks, systemHealth>>

handleScheduleMaintenance(msg) ==
    /\ OrgDispatch(msg.type) = "handleScheduleMaintenance"
    /\ req' = msg
    /\ LET t1 == now
           tId == now IN
        LET p == msg.payload
            maintenance ==
                scheduleMaintenance(Get(p, "maintenanceType", "routine"),
                                    Get(p, "targets", <<"all-services">>),
                                    p, tId, tId)
        IN  /\ maintenanceTasks' = MapSet(maintenanceTasks, maintenance)
            /\ resp' = Reply(msg, "MAINTENANCE_SCHEDULED",
                             [maintenance |-> maintenance] @@ Stamp(now, t1))
            /\ now' = t1
            /\ UNCHANGED <<organizations, coordinations, systemHealth>>

handleExecuteMaintenance(msg) ==
    /\ OrgDispatch(msg.type) = "handleExecuteMaintenance"
    /\ req' = msg
    /\ LET t1 == now
           tDone == now IN
        /\ now' = t1
        /\ IF ~Has(msg.payload, "maintenanceId")
              \/ ~MapHas(maintenanceTasks, msg.payload.maintenanceId)
           THEN /\ resp' = Reply(msg, "MAINTENANCE_EXECUTION_ERROR",
                                 [error |-> "Maintenance task not found",
                                  maintenanceId |-> Get(msg.payload, "maintenanceId", Null)]
                                 @@ Stamp(now, t1))
                /\ UNCHANGED orgVars
           ELSE \E issuesFound \in IssuesFoundDraws :
                \E resolvedDraw \in IssuesResolvedDraws(issuesFound) :
                LET maintenance == MapGet(maintenanceTasks, msg.payload.maintenanceId)
                    results == maintenanceResults(maintenance, issuesFound, resolvedDraw)
                IN  /\ maintenanceTasks' =
                            MapSet(maintenanceTasks,
                                   executeMaintenance(maintenance, results, tDone))
                    /\ resp' = Reply(msg, "MAINTENANCE_EXECUTED",
                                     [maintenanceId |-> maintenance.id,
                                      results |-> results] @@ Stamp(now, t1))
                    /\ UNCHANGED <<organizations, coordinations, systemHealth>>

handleGetOrganizationStatus(msg) ==
    /\ OrgDispatch(msg.type) = "handleGetOrganizationStatus"
    /\ req' = msg
    /\ LET t1 == now
           tRead == now IN
        LET p == msg.payload
            status ==
                IF Has(p, "organizationId")
                THEN IF MapHas(organizations, p.organizationId)
                     THEN [organization |-> MapGet(organizations, p.organizationId),
                           found |-> TRUE]
                     ELSE [found |-> FALSE, organizationId |-> p.organizationId]
                ELSE getOverallOrganizationStatus(Get(p, "includeComponents", FALSE), tRead)
        IN  /\ resp' = Reply(msg, "ORGANIZATION_STATUS_RETRIEVED",
                             [status |-> status] @@ Stamp(now, t1))
            /\ now' = t1
            /\ UNCHANGED orgVars

handleOptimizeOrganization(msg) ==
    /\ OrgDispatch(msg.type) = "handleOptimizeOrganization"
    /\ req' = msg
    /\ LET t1 == now
           tUpdated == now IN
        LET p == msg.payload
            found == Has(p, "organizationId") /\ MapHas(organizations, p.organizationId)
            org == MapGet(organizations, p.organizationId)
            sync == [required |-> TRUE, type |-> "organization_update",
                     priority |-> "medium"]
        IN  /\ now' = t1
            /\ IF found
               THEN /\ organizations' =
                            MapSet(organizations, optimizeOrganization(org, tUpdated))
                    /\ resp' = Reply(msg, "ORGANIZATION_OPTIMIZED",
                                     [organizationId |-> org.id,
                                      optimizations |->
                                        [appliedOptimizations |-> appliedOptimizations(org.metrics),
                                         metricsImprovement |-> metricsImprovement(org.metrics),
                                         stateManagementSync |-> sync]]
                                     @@ Stamp(now, t1))
               ELSE /\ organizations' = organizations
                    /\ resp' = Reply(msg, "ORGANIZATION_OPTIMIZED",
                                     [organizationId |-> "all",
                                      optimizations |->
                                        [appliedOptimizations |-> SystemWideOptimizations,
                                         metricsImprovement |-> EmptyPayload,
                                         stateManagementSync |-> sync]]
                                     @@ Stamp(now, t1))
            /\ UNCHANGED <<coordinations, maintenanceTasks, systemHealth>>

handleSyncWithStateManagement(msg) ==
    /\ OrgDispatch(msg.type) = "handleSyncWithStateManagement"
    /\ req' = msg
    /\ LET t1 == now
           tSync == now IN
        /\ resp' = Reply(msg, "STATE_MANAGEMENT_SYNCED",
                         [syncResult |->
                            syncWithStateManagement(Get(msg.payload, "syncType", "full"), tSync)]
                         @@ Stamp(now, t1))
        /\ now' = t1
        /\ UNCHANGED orgVars

\* default: log a warning and return null.
OrgUnknownType(msg) ==
    /\ OrgDispatch(msg.type) = "default"
    /\ req' = msg
    /\ resp' = ReturnedNull
    /\ UNCHANGED <<now, orgVars>>

OrgProcess(msg) ==
    \/ handleCreateOrganization(msg)
    \/ handleBackgroundCoordination(msg)
    \/ handleScheduleMaintenance(msg)
    \/ handleExecuteMaintenance(msg)
    \/ handleGetOrganizationStatus(msg)
    \/ handleOptimizeOrganization(msg)
    \/ handleSyncWithStateManagement(msg)
    \/ OrgUnknownType(msg)

----
\* Messages the host may hand to TreasuryService.process.
TreasuryTypes ==
    {"STORE_MOTOR_MEMORY", "RETRIEVE_SKILL", "REGISTER_LEARNED_SKILL",
     "UPDATE_PROFICIENCY", "GET_SKILL_INVENTORY", "RECEIVE_FROM_DEVELOPMENT",
     "INTEGRATE_SKILL"}

\* Ids a caller has learnt from earlier responses: the oldest and the newest.
KnownIds(m) == IF Len(m) = 0 THEN {} ELSE {m[1].id, m[Len(m)].id}

\* Types next to a recognized one: the empty string, another case, a prefix.
TreasuryUnrecognizedTypes == {"", "store_motor_memory", "STORE"}

TreasuryPayloads(type) ==
    CASE type = "STORE_MOTOR_MEMORY" ->
            {EmptyPayload,
             [skillName |-> BasicMotorControl, skillType |-> "motor", proficiency |-> 90],
             [skillName |-> Overdrive, proficiency |-> 500]}
      [] type = "RETRIEVE_SKILL" ->
            {EmptyPayload, [skillName |-> BasicQuery], [skillName |-> <<>>]}
            \cup {[skillId |-> k] : k \in KnownIds(motorMemoryStore)}
      [] type = "REGISTER_LEARNED_SKILL" ->
            {EmptyPayload}
      [] type = "UPDATE_PROFICIENCY" ->
            {EmptyPayload, [skillId |-> UnknownId, newProficiency |-> 50]}
            \cup {[skillId |-> k] : k \in KnownIds(motorMemoryStore)}
            \cup {[skillId |-> k, newProficiency |-> v] :
                    k \in KnownIds(motorMemoryStore), v \in {0 - 300, 500}}
      [] type = "GET_SKILL_INVENTORY" ->
            {EmptyPayload, [minProficiency |-> 80]}
      [] type = "RECEIVE_FROM_DEVELOPMENT" ->
            {EmptyPayload, [developmentPlanId |-> PlanOne, proficiency |-> 500]}
      [] type = "INTEGRATE_SKILL" ->
            {[skillId |-> k] : k \in KnownIds(learnedSkills) \cup {UnknownId}}
      [] OTHER ->
            {[skillId |-> UnknownId]}

TreasuryMessages ==
    UNION {{Message(type, p) : p \in TreasuryPayloads(type)} :
             type \in TreasuryTypes \cup TreasuryUnrecognizedTypes}

handleStoreMotorMemory(msg) ==
    /\ TreasuryDispatch(msg.type) = "handleStoreMotorMemory"
    /\ req' = msg
    /\ LET p == msg.payload
           memory == storeMotorMemory(Get(p, "skillName", UnnamedSkill),
                                      Get(p, "skillType", "motor"),
                                      Get(p, "pattern", EmptyPayload),
                                      Get(p, "proficiency", 50),
                                      Get(p, "metadata", EmptyPayload), now)
       IN  /\ motorMemoryStore' = MapSet(motorMemoryStore, memory)
           /\ resp' = Reply(msg, "MOTOR_MEMORY_STORED",
                            [memory |-> [id |-> memory.id, skillName |-> memory.skillName,
                                         proficiency |-> memory.proficiency,
                                         storedAt |-> memory.metadata.createdAt]]
                            @@ Stamp(now, now))
    /\ UNCHANGED <<now, learnedSkills, accessLog, treasuryShared>>

\* Faulty variant: the retrieval is also noted in the shared state.
handleRetrieveSkillNotingShared(msg) ==
    /\ TreasuryDispatch(msg.type) = "handleRetrieveSkill"
    /\ req' = msg
    /\ LET p == msg.payload
           result == retrieveSkill(motorMemoryStore, p, now)
       IN  /\ motorMemoryStore' = Accessed(motorMemoryStore, FoundIndex(motorMemoryStore, p), now)
           /\ accessLog' = Append(accessLog,
                                  [skillId |-> IF Has(p, "skillId") THEN p.skillId
                                               ELSE IF HasSkillName(p) THEN p.skillName
                                               ELSE <<"search">>,
                                   timestamp |-> now,
                                   success |-> result.skill # Null])
           /\ treasuryShared' = Put(treasuryShared, "lastRetrieved", [timestamp |-> now])
           /\ resp' = Reply(msg, "SKILL_RETRIEVED", [result |-> result] @@ Stamp(now, now))
    /\ UNCHANGED <<now, learnedSkills>>

\* retrieveSkill touches the found memory, then the access is logged.
handleRetrieveSkill(msg) ==
    /\ TreasuryDispatch(msg.type) = "handleRetrieveSkill"
    /\ req' = msg
    /\ LET p == msg.payload
           result == retrieveSkill(motorMemoryStore, p, now)
       IN  /\ motorMemoryStore' = Accessed(motorMemoryStore, FoundIndex(motorMemoryStore, p), now)
           /\ accessLog' = Append(accessLog,
                                  [skillId |-> IF Has(p, "skillId") THEN p.skillId
                                               ELSE IF HasSkillName(p) THEN p.skillName
                                               ELSE <<"search">>,
                                   timestamp |-> now,
                                   success |-> result.skill # Null])
           /\ resp' = Reply(msg, "SKILL_RETRIEVED", [result |-> result] @@ Stamp(now, now))
    /\ UNCHANGED <<now, learnedSkills, treasuryShared>>

handleRegisterLearnedSkill(msg) ==
    /\ TreasuryDispatch(msg.type) = "handleRegisterLearnedSkill"
    /\ req' = msg
    /\ LET skill == registerLearnedSkill(msg.payload, now)
       IN  /\ learnedSkills' = MapSet(learnedSkills, skill)
           /\ resp' = Reply(msg, "LEARNED_SKILL_REGISTERED",
                            [skill |-> skill] @@ Stamp(now, now))
    /\ UNCHANGED <<now, motorMemoryStore, accessLog, treasuryShared>>

handleUpdateProficiency(msg) ==
    /\ TreasuryDispatch(msg.type) = "handleUpdateProficiency"
    /\ req' = msg
    /\ LET p == msg.payload IN
       IF ~Has(p, "skillId") \/ ~MapHas(motorMemoryStore, p.skillId)
       THEN /\ resp' = Reply(msg, "PROFICIENCY_UPDATE_ERROR",
                             [error |-> "Skill not found",
                              skillId |-> Get(p, "skillId", Null)] @@ Stamp(now, now))
            /\ UNCHANGED motorMemoryStore
       ELSE LET memory == MapGet(motorMemoryStore, p.skillId)
                newProficiency == updatedProficiency(memory, p)
            IN  /\ motorMemoryStore' =
                      MapSet(motorMemoryStore, [memory EXCEPT !.proficiency = newProficiency])
                /\ resp' = Reply(msg, "PROFICIENCY_UPDATED",
                                 [skillId |-> p.skillId,
                                  oldProficiency |-> memory.proficiency,
                                  newProficiency |-> newProficiency,
                                  change |-> newProficiency - memory.proficiency,
                                  reason |-> Get(p, "reason", "manual update")]
                                 @@ Stamp(now, now))
    /\ UNCHANGED <<now, learnedSkills, accessLog, treasuryShared>>

\* Faulty variant: the inventory read is counted as an access.
handleGetSkillInventoryLogged(msg) ==
    /\ TreasuryDispatch(msg.type) = "handleGetSkillInventory"
    /\ req' = msg
    /\ resp' = Reply(msg, "SKILL_INVENTORY_RETRIEVED",
                     [inventory |-> getSkillInventory(msg.payload)] @@ Stamp(now, now))
    /\ accessLog' = Append(accessLog, [skillId |-> Null, timestamp |-> now,
                                       success |-> TRUE])
    /\ UNCHANGED <<now, motorMemoryStore, learnedSkills, treasuryShared>>

handleGetSkillInventory(msg) ==
    /\ TreasuryDispatch(msg.type) = "handleGetSkillInventory"
    /\ req' = msg
    /\ resp' = Reply(msg, "SKILL_INVENTORY_RETRIEVED",
                     [inventory |-> getSkillInventory(msg.payload)] @@ Stamp(now, now))
    /\ UNCHANGED <<now, treasuryVars>>

handleReceiveFromDevelopment(msg) ==
    /\ TreasuryDispatch(msg.type) = "handleReceiveFromDevelopment"
    /\ req' = msg
    /\ LET p == msg.payload
           completedSkill == Get(p, "completedSkill", EmptyPayload)
           planId == Get(p, "developmentPlanId", Null)
           memory ==
              storeMotorMemory(
                  Get(completedSkill, "name",
                      DevSkillPrefix \o Get(p, "developmentPlanId", Undefined)),
                  Get(completedSkill, "type", "motor"),
                  Get(p, "pattern", EmptyPayload),
                  Get(p, "proficiency", 50),
                  [developmentPlanId |-> planId, sourceTriad |-> "somatic",
                   validatedBy |-> <<"development-service">>],
                  now)
       IN  /\ motorMemoryStore' = MapSet(motorMemoryStore, memory)
           /\ treasuryShared' =
                 Put(treasuryShared, "lastDevelopmentReceived",
                     [timestamp |-> now, planId |-> planId, memoryId |-> memory.id])
           /\ resp' = Reply(msg, "DEVELOPMENT_RECEIVED",
                            [memoryId |-> memory.id, skillName |-> memory.skillName,
                             proficiency |-> memory.proficiency,
                             developmentPlanId |-> planId,
                             parasympatheticSync |-> "complete"] @@ Stamp(now, now))
    /\ UNCHANGED <<now, learnedSkills, accessLog>>

handleSkillIntegration(msg) ==
    /\ TreasuryDispatch(msg.type) = "handleSkillIntegration"
    /\ req' = msg
    /\ LET p == msg.payload IN
       IF ~Has(p, "skillId") \/ ~MapHas(learnedSkills, p.skillId)
       THEN /\ resp' = Reply(msg, "SKILL_INTEGRATION_ERROR",
                             [error |-> "Skill not found",
                              skillId |-> Get(p, "skillId", Null)] @@ Stamp(now, now))
            /\ UNCHANGED learnedSkills
       ELSE LET skill == MapGet(learnedSkills, p.skillId)
                integration == [targetService |-> Get(p, "targetService", "motor-control"),
                                integrationType |-> Get(p, "integrationType", "motor"),
                                strength |-> 50]
                integrated == [skill EXCEPT !.integrations = Append(@, integration)]
            IN  /\ learnedSkills' = MapSet(learnedSkills, integrated)
                /\ resp' = Reply(msg, "SKILL_INTEGRATED",
                                 [skillId |-> p.skillId, skillName |-> skill.name,
                                  integration |-> integration,
                                  totalIntegrations |-> Len(integrated.integrations)]
                                 @@ Stamp(now, now))
    /\ UNCHANGED <<now, motorMemoryStore, accessLog, treasuryShared>>

TreasuryUnknownType(msg) ==
    /\ TreasuryDispatch(msg.type) = "default"
    /\ req' = msg
    /\ resp' = ReturnedNull
    /\ UNCHANGED <<now, treasuryVars>>

TreasuryProcess(msg) ==
    \/ handleStoreMotorMemory(msg)
    \/ handleRetrieveSkill(msg)
    \/ handleRegisterLearnedSkill(msg)
    \/ handleUpdateProficiency(msg)
    \/ handleGetSkillInventory(msg)
    \/ handleReceiveFromDevelopment(msg)
    \/ handleSkillIntegration(msg)
    \/ TreasuryUnknownType(msg)

----
\* DevelopmentService

DevelopmentServiceName == "development-service"

PoolSize == 100
DefaultAmount == 10
MinStages == 3
StagesPerLevel == 5

\* A Map keyed by something else than the value's own id: each entry carries
\* its key in id and the stored object in value.  A key the payload left
\* out is the key undefined.
UndefinedKey == "undefined"
Entry(key, value) == [id |-> key, value |-> value]

\* Math.ceil(a / b) and Math.round(a / b) for b > 0
CeilDiv(a, b) == 0 - ((0 - a) \div b)
RoundDiv(a, b) == (2 * a + b) \div (2 * b)

RequiredResources ==
    <<"Motor control bandwidth", "Sensory feedback channels", "Processing capacity",
      "Memory allocation for skill storage", "Coordination with Treasury service">>

generateStageObjectives(stageIndex, totalStages) ==
    LET progressPercent == RoundDiv((stageIndex + 1) * 100, totalStages)
        baseObjectives ==
            << <<"Master foundational elements", progressPercent>>,
               <<"Integrate with existing motor patterns">>,
               <<"Validate through behavioral output">> >>
    IN  IF stageIndex = 0
        THEN << <<"Establish baseline motor patterns">> >> \o baseObjectives
        ELSE IF stageIndex = totalStages - 1
        THEN Append(baseObjectives, <<"Achieve full integration with Treasury (T-7)">>)
        ELSE baseObjectives

\* A level of the payload is a JSON value: a number, kept in hundredths, or
\* something that is not one (a string such as 'high', an object), with
\* which targetLevel - currentLevel is NaN.
JsNumber(n) == [isNumber |-> TRUE, value |-> n]
JsNotANumber == [isNumber |-> FALSE]

\* A payload without levels gets 0 and 1.  Math.max(3, NaN) is NaN and
\* `i < NaN` is false at once: the plan then has no stage.
createDevelopmentPlan(payload, t) ==
    LET currentLevel == Get(payload, "currentLevel", JsNumber(0))
        targetLevel == Get(payload, "targetLevel", JsNumber(One))
        isNaN == ~currentLevel.isNumber \/ ~targetLevel.isNumber
        levelGap == IF isNaN THEN 0 ELSE targetLevel.value - currentLevel.value
        stageCount == IF isNaN THEN 0
                      ELSE Max(MinStages, CeilDiv(levelGap * StagesPerLevel, One))
    IN  [id |-> Id("plan", t),
         skillTarget |-> Get(payload, "skillTarget", "motor-skill"),
         currentLevel |-> currentLevel,
         targetLevel |-> targetLevel,
         stages |-> [k \in 1..stageCount |->
                       [id |-> Id("stage", k),
                        name |-> <<"Development Stage", k>>,
                        objectives |-> generateStageObjectives(k - 1, stageCount),
                        duration |-> CeilDiv(7, stageCount),
                        prerequisites |-> IF k > 1 THEN <<Id("stage", k - 1)>> ELSE <<>>,
                        completionCriteria |-> <<RoundDiv(k * 100, stageCount)>>,
                        progress |-> 0]],
         timeline |-> Get(payload, "timeline", "30 days"),
         resources |-> RequiredResources,
         status |-> "planning"]

OptimizationActions ==
    << [action |-> "Streamline motor pathway connections", priority |-> "high",
        effort |-> 30, impact |-> 40],
       [action |-> "Reduce redundant processing steps", priority |-> "medium",
        effort |-> 20, impact |-> 25],
       [action |-> "Enhance sensory-motor feedback loop", priority |-> "high",
        effort |-> 40, impact |-> 35],
       [action |-> "Coordinate with Autonomic Process Director", priority |-> "medium",
        effort |-> 20, impact |-> 20] >>

RECURSIVE SumImpact(_)
SumImpact(actions) ==
    IF Len(actions) = 0 THEN 0 ELSE actions[1].impact + SumImpact(Tail(actions))

optimizeBehavior(payload, t) ==
    LET currentEfficiency == Get(payload, "currentEfficiency", 50)
        expectedImprovement ==
            (SumImpact(OptimizationActions) * (One - currentEfficiency)) \div One
    IN  [id |-> Id("opt", t),
         targetBehavior |-> Get(payload, "targetBehavior", "general-motor"),
         currentEfficiency |-> currentEfficiency,
         optimizations |-> OptimizationActions,
         expectedImprovement |-> Min(expectedImprovement, One - currentEfficiency),
         parasympatheticCoordination |-> TRUE]

\* Faulty variant: the whole requested amount is counted as allocated, also
\* the part of it that the pool could not give.
allocateResourcesCountingRequest(allocations, payload, t) ==
    LET key == Get(payload, "resourceType", UndefinedKey)
        exists == MapHas(allocations, key)
        available == IF exists THEN MapGet(allocations, key).value.available
                     ELSE PoolSize
        allocated == IF exists THEN MapGet(allocations, key).value.allocated ELSE 0
        amount == Get(payload, "amount", 0)
        requested == IF amount = 0 THEN DefaultAmount ELSE amount
        toAllocate == Min(requested, available)
    IN  [id |-> Id("alloc", t),
         resourceType |-> Get(payload, "resourceType", "general"),
         allocated |-> allocated + requested,
         available |-> available - toAllocate,
         utilization |-> ((allocated + requested) * One) \div PoolSize,
         targets |-> Get(payload, "targets", <<"motor-control", "behavioral-processing">>)]

\* amount || 10: an absent amount and the amount 0 both give the default.
\* allocated and available are in units of the pool; utilization is
\* allocated / 100, in hundredths the same number.
allocateResources(allocations, payload, t) ==
    LET key == Get(payload, "resourceType", UndefinedKey)
        exists == MapHas(allocations, key)
        available == IF exists THEN MapGet(allocations, key).value.available
                     ELSE PoolSize
        allocated == IF exists THEN MapGet(allocations, key).value.allocated ELSE 0
        amount == Get(payload, "amount", 0)
        toAllocate == Min(IF amount = 0 THEN DefaultAmount ELSE amount, available)
    IN  [id |-> Id("alloc", t),
         resourceType |-> Get(payload, "resourceType", "general"),
         allocated |-> allocated + toAllocate,
         available |-> available - toAllocate,
         utilization |-> ((allocated + toAllocate) * One) \div PoolSize,
         targets |-> Get(payload, "targets", <<"motor-control", "behavioral-processing">>)]

RECURSIVE SumUtilization(_)
SumUtilization(allocations) ==
    IF Len(allocations) = 0 THEN 0
    ELSE allocations[1].value.utilization + SumUtilization(Tail(allocations))

\* The mean is kept as the fraction sum / count.
calculateOverallUtilization(allocations) ==
    IF Len(allocations) = 0 THEN [sum |-> 0, count |-> 1]
    ELSE [sum |-> SumUtilization(allocations), count |-> Len(allocations)]

coordinateParasympathetic(payload, plans, history, allocations, t) ==
    [id |-> Id("coord", t),
     type |-> Get(payload, "coordinationType", "general"),
     sourceTriad |-> "somatic",
     targetTriad |-> Get(payload, "targetTriad", "autonomic"),
     sharedState |->
        [motorDevelopmentActive |-> Len(plans) > 0,
         activeOptimizations |-> Len(history),
         resourceUtilization |-> calculateOverallUtilization(allocations),
         coordinationTimestamp |-> t],
     actions |->
        <<"Synchronize motor development with autonomic background processing",
          "Share resource allocation state for system-wide optimization",
          "Coordinate skill storage with Treasury service">>,
     bidirectional |-> TRUE]

\* stage.progress = Math.min(progress || 0, 100) on the stage with that id,
\* then the plan's status.
updateSkillProgress(plan, payload) ==
    LET stageId == Get(payload, "stageId", Null)
        progress == Min(Get(payload, "progress", 0), 100)
        stages == [k \in 1..Len(plan.stages) |->
                     IF plan.stages[k].id = stageId
                     THEN [plan.stages[k] EXCEPT !.progress = progress]
                     ELSE plan.stages[k]]
        allStagesComplete == \A k \in 1..Len(stages) : stages[k].progress >= 100
    IN  [plan EXCEPT !.stages = stages,
                     !.status = IF allStagesComplete THEN "completed"
                                ELSE IF plan.status = "planning" THEN "active"
                                ELSE plan.status]

DevelopmentDispatch(type) ==
    CASE type = "CREATE_DEVELOPMENT_PLAN" -> "handleCreateDevelopmentPlan"
      [] type = "OPTIMIZE_BEHAVIOR" -> "handleBehaviorOptimization"
      [] type = "ALLOCATE_RESOURCES" -> "handleResourceAllocation"
      [] type = "COORDINATE_PARASYMPATHETIC" -> "handleParasympatheticCoordination"
      [] type = "GET_DEVELOPMENT_STATUS" -> "handleGetDevelopmentStatus"
      [] type = "UPDATE_SKILL_PROGRESS" -> "handleUpdateSkillProgress"
      [] OTHER -> "default"

ResourceTypes ==
    <<"motor-bandwidth", "processing-capacity", "memory-allocation",
      "coordination-channels">>

InitDevelopment ==
    /\ developmentPlans = <<>>
    /\ optimizationHistory = <<>>
    /\ resourceAllocations =
          [k \in 1..Len(ResourceTypes) |->
             Entry(ResourceTypes[k],
                   [id |-> <<"default", ResourceTypes[k]>>,
                    resourceType |-> ResourceTypes[k],
                    allocated |-> 0, available |-> PoolSize, utilization |-> 0,
                    targets |-> <<>>])]
    /\ devShared =
          << Entry("initialized",
                   [timestamp |-> 0, status |-> "ready",
                    connectedTriads |-> <<"somatic", "autonomic">>]) >>

DevelopmentTypes ==
    {"CREATE_DEVELOPMENT_PLAN", "OPTIMIZE_BEHAVIOR", "ALLOCATE_RESOURCES",
     "COORDINATE_PARASYMPATHETIC", "GET_DEVELOPMENT_STATUS", "UPDATE_SKILL_PROGRESS"}

\* Types next to a recognized one: the empty string, another case, a prefix.
DevelopmentUnrecognizedTypes == {"", "update_skill_progress", "UPDATE"}

DevelopmentPayloads(type) ==
    CASE type = "CREATE_DEVELOPMENT_PLAN" ->
            {EmptyPayload,
             [skillTarget |-> "grasp", currentLevel |-> JsNumber(50),
              targetLevel |-> JsNumber(100)],
             [skillTarget |-> "grasp", targetLevel |-> JsNotANumber]}
      [] type = "OPTIMIZE_BEHAVIOR" ->
            {EmptyPayload, [currentEfficiency |-> 80]}
      [] type = "ALLOCATE_RESOURCES" ->
            {EmptyPayload,
             [resourceType |-> "motor-bandwidth", amount |-> 150],
             [resourceType |-> "motor-bandwidth", amount |-> 0 - 5],
             [resourceType |-> "fuel", amount |-> 40]}
      [] type = "COORDINATE_PARASYMPATHETIC" ->
            {EmptyPayload, [coordinationType |-> "sync", targetTriad |-> "cerebral"]}
      [] type = "GET_DEVELOPMENT_STATUS" ->
            {EmptyPayload, [planId |-> UnknownId]}
            \cup {[planId |-> k] : k \in KnownIds(developmentPlans)}
      [] type = "UPDATE_SKILL_PROGRESS" ->
            {EmptyPayload, [planId |-> UnknownId, stageId |-> Id("stage", 1), progress |-> 50]}
            \cup {[planId |-> k, stageId |-> Id("stage", 1)] :
                    k \in KnownIds(developmentPlans)}
            \cup {[planId |-> k, stageId |-> Id("stage", s), progress |-> v] :
                    k \in KnownIds(developmentPlans), s \in {1, 2, 9}, v \in {0 - 20, 100, 150}}
      [] OTHER ->
            {[planId |-> UnknownId]}

DevelopmentMessages ==
    UNION {{Message(type, p) : p \in DevelopmentPayloads(type)} :
             type \in DevelopmentTypes \cup DevelopmentUnrecognizedTypes}

handleCreateDevelopmentPlan(msg) ==
    /\ DevelopmentDispatch(msg.type) = "handleCreateDevelopmentPlan"
    /\ req' = msg
    /\ LET plan == createDevelopmentPlan(msg.payload, now)
       IN  /\ developmentPlans' = MapSet(developmentPlans, plan)
           /\ resp' = Reply(msg, "DEVELOPMENT_PLAN_CREATED",
                            [plan |-> plan] @@ Stamp(now, now))
    /\ UNCHANGED <<now, optimizationHistory, resourceAllocations, devShared>>

handleBehaviorOptimization(msg) ==
    /\ DevelopmentDispatch(msg.type) = "handleBehaviorOptimization"
    /\ req' = msg
    /\ LET optimization == optimizeBehavior(msg.payload, now)
       IN  /\ optimizationHistory' = Append(optimizationHistory, optimization)
           /\ resp' = Reply(msg, "BEHAVIOR_OPTIMIZED",
                            [optimization |-> optimization] @@ Stamp(now, now))
    /\ UNCHANGED <<now, developmentPlans, resourceAllocations, devShared>>

handleResourceAllocation(msg) ==
    /\ DevelopmentDispatch(msg.type) = "handleResourceAllocation"
    /\ req' = msg
    /\ LET allocation == allocateResources(resourceAllocations, msg.payload, now)
       IN  /\ resourceAllocations' =
                 MapSet(resourceAllocations,
                        Entry(Get(msg.payload, "resourceType", UndefinedKey), allocation))
           /\ resp' = Reply(msg, "RESOURCES_ALLOCATED",
                            [allocation |-> allocation] @@ Stamp(now, now))
    /\ UNCHANGED <<now, developmentPlans, optimizationHistory, devShared>>

handleParasympatheticCoordination(msg) ==
    /\ DevelopmentDispatch(msg.type) = "handleParasympatheticCoordination"
    /\ req' = msg
    /\ LET coordination ==
              coordinateParasympathetic(msg.payload, developmentPlans,
                                        optimizationHistory, resourceAllocations, now)
       IN  /\ devShared' =
                 MapSet(devShared,
                        Entry(Get(msg.payload, "coordinationType", UndefinedKey),
                              coordination))
           /\ resp' = Reply(msg, "PARASYMPATHETIC_COORDINATED",
                            [coordination |-> coordination,
                             sharedWith |-> Get(msg.payload, "targetTriad", "autonomic")]
                            @@ Stamp(now, now))
    /\ UNCHANGED <<now, developmentPlans, optimizationHistory, resourceAllocations>>

handleGetDevelopmentStatus(msg) ==
    /\ DevelopmentDispatch(msg.type) = "handleGetDevelopmentStatus"
    /\ req' = msg
    /\ LET p == msg.payload
           IsActive(plan) == plan.status = "active"
           status ==
              IF Has(p, "planId")
              THEN IF MapHas(developmentPlans, p.planId)
                   THEN [plan |-> MapGet(developmentPlans, p.planId), found |-> TRUE]
                   ELSE [found |-> FALSE, planId |-> p.planId]
              ELSE [totalPlans |-> Len(developmentPlans),
                    activePlans |-> Len(SelectSeq(developmentPlans, IsActive)),
                    plans |-> developmentPlans,
                    optimizationCount |-> Len(optimizationHistory),
                    resourceUtilization |-> calculateOverallUtilization(resourceAllocations)]
       IN  resp' = Reply(msg, "DEVELOPMENT_STATUS_RETRIEVED",
                         [status |-> status] @@ Stamp(now, now))
    /\ UNCHANGED <<now, devVars>>

\* Faulty variant: the handler reads plan.stages without looking whether the plan is
\* in the store.
handleUpdateSkillProgressUnguarded(msg) ==
    /\ DevelopmentDispatch(msg.type) = "handleUpdateSkillProgress"
    /\ req' = msg
    /\ LET p == msg.payload IN
       IF ~Has(p, "planId") \/ ~MapHas(developmentPlans, p.planId)
       THEN /\ resp' = Thrown
            /\ UNCHANGED developmentPlans
       ELSE LET plan == updateSkillProgress(MapGet(developmentPlans, p.planId), p)
            IN  /\ developmentPlans' = MapSet(developmentPlans, plan)
                /\ resp' = Reply(msg, "SKILL_PROGRESS_UPDATED",
                                 [planId |-> p.planId, planStatus |-> plan.status]
                                 @@ Stamp(now, now))
    /\ UNCHANGED <<now, optimizationHistory, resourceAllocations, devShared>>

handleUpdateSkillProgress(msg) ==
    /\ DevelopmentDispatch(msg.type) = "handleUpdateSkillProgress"
    /\ req' = msg
    /\ LET p == msg.payload IN
       IF ~Has(p, "planId") \/ ~MapHas(developmentPlans, p.planId)
       THEN /\ resp' = Reply(msg, "SKILL_PROGRESS_ERROR",
                             [error |-> "Plan not found",
                              planId |-> Get(p, "planId", Null)] @@ Stamp(now, now))
            /\ UNCHANGED developmentPlans
       ELSE LET plan == updateSkillProgress(MapGet(developmentPlans, p.planId), p)
                IsStage(s) == s.id = Get(p, "stageId", Null)
                found == SelectSeq(plan.stages, IsStage)
                newProgress == IF Len(found) > 0 THEN <<found[1].progress>> ELSE Null
            IN  /\ developmentPlans' = MapSet(developmentPlans, plan)
                /\ resp' = Reply(msg, "SKILL_PROGRESS_UPDATED",
                                 [planId |-> p.planId,
                                  stageId |-> Get(p, "stageId", Null),
                                  newProgress |-> newProgress,
                                  planStatus |-> plan.status,
                                  treasurySync |->
                                     IF newProgress = <<100>>
                                     THEN "Skill ready for Treasury storage"
                                     ELSE "null"]
                                 @@ Stamp(now, now))
    /\ UNCHANGED <<now, optimizationHistory, resourceAllocations, devShared>>

DevelopmentUnknownType(msg) ==
    /\ DevelopmentDispatch(msg.type) = "default"
    /\ req' = msg
    /\ resp' = ReturnedNull
    /\ UNCHANGED <<now, devVars>>

DevelopmentProcess(msg) ==
    \/ handleCreateDevelopmentPlan(msg)
    \/ handleBehaviorOptimization(msg)
    \/ handleResourceAllocation(msg)
    \/ handleParasympatheticCoordination(msg)
    \/ handleGetDevelopmentStatus(msg)
    \/ handleUpdateSkillProgress(msg)
    \/ DevelopmentUnknownType(msg)

----
\* MarketService

MarketServiceName == "market-service"

FeedbackCap == 1000
FeedbackKeep == 500
PreviousValuesCount == 10
MinPreviousValues == 3
RecentFeedbackCount == 50
ManyThreats == 3

\* Outcomes of Math.random() the model follows, in hundredths.
RandomValues == {0, 50, 99}

\* Market segments are searched with String.prototype.includes.
General == <<"g", "e", "n", "e", "r", "a", "l">>
Retail == <<"r", "e", "t", "a", "i", "l">>
Cognitive == <<"c", "o", "g", "n", "i", "t", "i", "v", "e">>
Ai == <<"a", "i">>

identifyTrends(segment) ==
    LET baseTrends ==
            << [name |-> "Digital transformation acceleration", direction |-> "rising",
                impact |-> "high", timeframe |-> "12-24 months"],
               [name |-> "AI/ML integration demand", direction |-> "rising",
                impact |-> "high", timeframe |-> "6-18 months"],
               [name |-> "Real-time processing requirements", direction |-> "rising",
                impact |-> "medium", timeframe |-> "3-12 months"],
               [name |-> "Legacy system modernization", direction |-> "stable",
                impact |-> "medium", timeframe |-> "12-36 months"] >>
    IN  IF includes(segment, Cognitive) \/ includes(segment, Ai)
        THEN Append(baseTrends,
                    [name |-> "Neuromorphic computing adoption", direction |-> "rising",
                     impact |-> "high", timeframe |-> "18-36 months"])
        ELSE baseTrends

identifyOpportunities(trends) ==
    LET Rising(t) == t.direction = "rising" /\ t.impact = "high"
        risingTrends == SelectSeq(trends, Rising)
    IN  [k \in 1..Len(risingTrends) |->
            <<"Capitalize on", risingTrends[k].name, risingTrends[k].timeframe>>]
        \o << <<"Expand cognitive processing capabilities">>,
              <<"Enhance cross-triad integration for market differentiation">>,
              <<"Develop predictive market intelligence features">> >>

identifyThreats ==
    <<"Increasing competition in cognitive systems space",
      "Rapid technology obsolescence risk",
      "Integration complexity with external systems",
      "Data privacy and compliance requirements">>

generateMarketRecommendations ==
    <<"Prioritize high-impact opportunities in the short term",
      "Implement continuous market monitoring",
      "Strengthen external interface capabilities",
      "Develop threat mitigation strategies",
      "Feed insights back to Processing Director for optimization">>

analyzeMarket(segment, t) ==
    LET trends == identifyTrends(segment)
    IN  [id |-> Id("ma", t),
         marketSegment |-> segment,
         trends |-> trends,
         opportunities |-> identifyOpportunities(trends),
         threats |-> identifyThreats,
         recommendations |-> generateMarketRecommendations,
         timestamp |-> t]

InterfaceMetrics(t) ==
    [requestsHandled |-> 0, averageLatency |-> 0, successRate |-> One,
     lastActivity |-> t]

RECURSIVE SumValues(_)
SumValues(fs) == IF Len(fs) = 0 THEN 0 ELSE fs[1].value + SumValues(Tail(fs))

\* Faulty variant: the previous values are taken from the records of every
\* source.
processFeedbackAnySource(history, payload, random) ==
    LET metrics == Get(payload, "metrics", EmptyPayload)
        value == Get(metrics, "value", random)
        previous == SliceLast(history, PreviousValuesCount)
        n == Len(previous)
        trend == IF n >= MinPreviousValues
                 THEN IF value * n * 100 > SumValues(previous) * 105 THEN "improving"
                      ELSE IF value * n * 100 < SumValues(previous) * 95 THEN "declining"
                      ELSE "stable"
                 ELSE "stable"
    IN  [source |-> IF Has(payload, "source") /\ payload.source # ""
                    THEN payload.source ELSE "unknown",
         metricType |-> Get(metrics, "type", "general"),
         value |-> value,
         trend |-> trend,
         actionRequired |-> trend = "declining",
         recommendations |->
            IF trend = "declining"
            THEN <<"Review recent changes for potential issues",
                   "Consider optimization opportunities">>
            ELSE IF trend = "improving"
            THEN <<"Continue current approach",
                   "Document successful patterns for replication">>
            ELSE <<>>]

\* f.source === feedbackSource never holds for a feedbackSource that is
\* undefined: the stored source is then the string 'unknown'.
\* value > avg * 1.05 and value < avg * 0.95 are compared without dividing.
processFeedback(history, payload, random) ==
    LET metrics == Get(payload, "metrics", EmptyPayload)
        value == Get(metrics, "value", random)
        SameSource(f) == Has(payload, "source") /\ f.source = payload.source
        previous == SliceLast(SelectSeq(history, SameSource), PreviousValuesCount)
        n == Len(previous)
        trend == IF n >= MinPreviousValues
                 THEN IF value * n * 100 > SumValues(previous) * 105 THEN "improving"
                      ELSE IF value * n * 100 < SumValues(previous) * 95 THEN "declining"
                      ELSE "stable"
                 ELSE "stable"
    IN  [source |-> IF Has(payload, "source") /\ payload.source # ""
                    THEN payload.source ELSE "unknown",
         metricType |-> Get(metrics, "type", "general"),
         value |-> value,
         trend |-> trend,
         actionRequired |-> trend = "declining",
         recommendations |->
            IF trend = "declining"
            THEN <<"Review recent changes for potential issues",
                   "Consider optimization opportunities">>
            ELSE IF trend = "improving"
            THEN <<"Continue current approach",
                   "Document successful patterns for replication">>
            ELSE <<>>]

\* Faulty variant: the cut keeps the oldest records.
limitHistoryKeepingOldest(history) ==
    IF Len(history) > FeedbackCap THEN SliceFirst(history, FeedbackKeep) ELSE history

\* Faulty variant: the history is cut as soon as it holds FeedbackCap records.
limitHistoryAtCap(history) ==
    IF Len(history) >= FeedbackCap THEN SliceLast(history, FeedbackKeep) ELSE history

\* this.feedbackHistory after the push and the size limit.
limitHistory(history) ==
    IF Len(history) > FeedbackCap THEN SliceLast(history, FeedbackKeep) ELSE history

calculateOverallTrend(feedback) ==
    LET Improving(f) == f.trend = "improving"
        Declining(f) == f.trend = "declining"
        improving == Len(SelectSeq(feedback, Improving))
        declining == Len(SelectSeq(feedback, Declining))
    IN  IF Len(feedback) = 0 THEN "insufficient data"
        ELSE IF 2 * improving > 3 * declining THEN "positive"
        ELSE IF 2 * declining > 3 * improving THEN "negative"
        ELSE "neutral"

\* healthyCount / interfaces.length, kept as the fraction sum / count.
calculateInterfaceHealth(interfaces) ==
    LET Active(i) == i.status = "active"
    IN  IF Len(interfaces) = 0 THEN [sum |-> One, count |-> 1]
        ELSE [sum |-> Len(SelectSeq(interfaces, Active)) * One,
              count |-> Len(interfaces)]

generateActionItems(feedback, analyses) ==
    LET Declining(f) == f.trend = "declining"
        Threatened(a) == Len(a.value.threats) > ManyThreats
        threatened == SelectSeq(analyses, Threatened)
        items ==
            (IF 10 * Len(SelectSeq(feedback, Declining)) > 3 * Len(feedback)
             THEN << <<"Investigate declining performance trends">> >> ELSE <<>>)
            \o [k \in 1..Len(threatened) |->
                  <<"Address threats in segment", threatened[k].value.marketSegment>>]
    IN  IF Len(items) = 0
        THEN << <<"Continue monitoring - no immediate actions required">> >>
        ELSE items

RECURSIVE CountRising(_)
CountRising(analyses) ==
    LET Rising(t) == t.direction = "rising"
    IN  IF Len(analyses) = 0 THEN 0
        ELSE Len(SelectSeq(analyses[1].value.trends, Rising))
             + CountRising(Tail(analyses))

gatherMarketIntelligence(payload, history, segments, interfaces) ==
    LET recentFeedback == SliceLast(history, RecentFeedbackCount)
    IN  [domain |-> Get(payload, "domain", "all"),
         timeframe |-> Get(payload, "timeframe", "recent"),
         summary |->
            [totalMarketSegments |-> Len(segments),
             activeTrends |-> CountRising(segments),
             feedbackTrend |-> calculateOverallTrend(recentFeedback),
             interfaceHealth |-> calculateInterfaceHealth(interfaces)],
         insights |->
            <<"Performance metrics indicate stable system operation",
              "Market opportunities align with current capabilities",
              "External interface utilization is within expected parameters">>,
         actionItems |-> generateActionItems(recentFeedback, segments)]

optimizeForPotential(payload) ==
    [targetArea |-> Get(payload, "targetArea", "general"),
     optimizations |->
        <<"Enhance market awareness through expanded data collection",
          "Improve feedback loop efficiency with Processing Director",
          "Strengthen external interface reliability",
          "Optimize resource allocation based on market priorities">>,
     expectedImpact |->
        [marketReach |-> "+15%", responseTime |-> "-20%", adaptability |-> "+25%"],
     implementationPriority |-> "medium",
     feedbackToProcessingDirector |->
        [type |-> "OPTIMIZATION_FEEDBACK",
         recommendations |->
            <<"Consider adjusting processing priorities based on market trends",
              "Enable proactive resource allocation for emerging opportunities">>]]

MarketDispatch(type) ==
    CASE type = "ANALYZE_MARKET" -> "handleMarketAnalysis"
      [] type = "INTERFACE_STATUS" -> "handleInterfaceStatus"
      [] type = "REGISTER_INTERFACE" -> "handleInterfaceRegistration"
      [] type = "PROCESS_FEEDBACK" -> "handleFeedbackProcessing"
      [] type = "GET_MARKET_INTELLIGENCE" -> "handleGetIntelligence"
      [] type = "OPTIMIZE_POTENTIAL" -> "handlePotentialOptimization"
      [] OTHER -> "default"

DefaultInterfaces ==
    << [type |-> "api", capabilities |-> <<"REST", "GraphQL">>],
       [type |-> "webhook", capabilities |-> <<"event-driven", "real-time">>],
       [type |-> "batch", capabilities |-> <<"bulk-processing", "scheduled">>] >>

InitMarket ==
    /\ marketSegments = <<>>
    /\ externalInterfaces =
          [k \in 1..Len(DefaultInterfaces) |->
             [id |-> Id("default-iface", k - 1),
              interfaceType |-> DefaultInterfaces[k].type,
              status |-> "active",
              capabilities |-> DefaultInterfaces[k].capabilities,
              metrics |-> InterfaceMetrics(0)]]
    /\ feedbackHistory = <<>>
    /\ marketIntelligence =
          << Entry("baseline", [established |-> 0, version |-> "1.0.0"]) >>

MarketTypes ==
    {"ANALYZE_MARKET", "INTERFACE_STATUS", "REGISTER_INTERFACE", "PROCESS_FEEDBACK",
     "GET_MARKET_INTELLIGENCE", "OPTIMIZE_POTENTIAL"}

\* Types next to a recognized one: the empty string, another case, a prefix.
MarketUnrecognizedTypes == {"", "process_feedback", "PROCESS"}

MarketPayloads(type) ==
    CASE type = "ANALYZE_MARKET" ->
            {EmptyPayload, [segment |-> Retail]}
      [] type = "INTERFACE_STATUS" ->
            {EmptyPayload, [interfaceId |-> UnknownId]}
            \cup {[interfaceId |-> k] : k \in KnownIds(externalInterfaces)}
      [] type = "REGISTER_INTERFACE" ->
            {EmptyPayload, [interfaceType |-> "grpc", capabilities |-> <<"stream">>]}
      [] type = "PROCESS_FEEDBACK" ->
            {EmptyPayload}
            \cup {[metrics |-> [value |-> v], source |-> "cpu"] : v \in {10, 90}}
      [] type = "GET_MARKET_INTELLIGENCE" ->
            {EmptyPayload, [domain |-> "tech"]}
      [] type = "OPTIMIZE_POTENTIAL" ->
            {EmptyPayload}
      [] OTHER ->
            {[interfaceId |-> UnknownId]}

MarketMessages ==
    UNION {{Message(type, p) : p \in MarketPayloads(type)} :
             type \in MarketTypes \cup MarketUnrecognizedTypes}

handleMarketAnalysis(msg) ==
    /\ MarketDispatch(msg.type) = "handleMarketAnalysis"
    /\ req' = msg
    /\ LET analysis == analyzeMarket(Get(msg.payload, "segment", General), now)
       IN  /\ marketSegments' =
                 MapSet(marketSegments, Entry(analysis.marketSegment, analysis))
           /\ resp' = Reply(msg, "MARKET_ANALYZED",
                            [analysis |-> analysis] @@ Stamp(now, now))
    /\ UNCHANGED <<now, externalInterfaces, feedbackHistory, marketIntelligence>>

handleInterfaceStatus(msg) ==
    /\ MarketDispatch(msg.type) = "handleInterfaceStatus"
    /\ req' = msg
    /\ LET p == msg.payload
           Active(i) == i.status = "active"
           interfaces ==
              IF Has(p, "interfaceId")
              THEN IF MapHas(externalInterfaces, p.interfaceId)
                   THEN <<MapGet(externalInterfaces, p.interfaceId)>>
                   ELSE <<>>
              ELSE externalInterfaces
       IN  resp' = Reply(msg, "INTERFACE_STATUS_RETRIEVED",
                         [interfaces |-> interfaces,
                          totalActive |-> Len(SelectSeq(interfaces, Active)),
                          totalInterfaces |-> Len(interfaces)] @@ Stamp(now, now))
    /\ UNCHANGED <<now, marketVars>>

\* Faulty variant: a registered interface starts as 'pending'.
handleInterfaceRegistrationPending(msg) ==
    /\ MarketDispatch(msg.type) = "handleInterfaceRegistration"
    /\ req' = msg
    /\ LET newInterface ==
              [id |-> Id("iface", now),
               interfaceType |-> Get(msg.payload, "interfaceType", "generic"),
               status |-> "pending",
               capabilities |-> Get(msg.payload, "capabilities", <<>>),
               metrics |-> InterfaceMetrics(now)]
       IN  /\ externalInterfaces' = MapSet(externalInterfaces, newInterface)
           /\ resp' = Reply(msg, "INTERFACE_REGISTERED",
                            [interface |-> newInterface] @@ Stamp(now, now))
    /\ UNCHANGED <<now, marketSegments, feedbackHistory, marketIntelligence>>

handleInterfaceRegistration(msg) ==
    /\ MarketDispatch(msg.type) = "handleInterfaceRegistration"
    /\ req' = msg
    /\ LET newInterface ==
              [id |-> Id("iface", now),
               interfaceType |-> Get(msg.payload, "interfaceType", "generic"),
               status |-> "active",
               capabilities |-> Get(msg.payload, "capabilities", <<>>),
               metrics |-> InterfaceMetrics(now)]
       IN  /\ externalInterfaces' = MapSet(externalInterfaces, newInterface)
           /\ resp' = Reply(msg, "INTERFACE_REGISTERED",
                            [interface |-> newInterface] @@ Stamp(now, now))
    /\ UNCHANGED <<now, marketSegments, feedbackHistory, marketIntelligence>>

handleFeedbackProcessing(msg) ==
    /\ MarketDispatch(msg.type) = "handleFeedbackProcessing"
    /\ req' = msg
    /\ \E random \in RandomValues :
          LET feedback == processFeedback(feedbackHistory, msg.payload, random)
              history == limitHistory(Append(feedbackHistory, feedback))
          IN  /\ feedbackHistory' = history
              /\ resp' = Reply(msg, "FEEDBACK_PROCESSED",
                               [feedback |-> feedback, historySize |-> Len(history)]
                               @@ Stamp(now, now))
    /\ UNCHANGED <<now, marketSegments, externalInterfaces, marketIntelligence>>

handleGetIntelligence(msg) ==
    /\ MarketDispatch(msg.type) = "handleGetIntelligence"
    /\ req' = msg
    /\ resp' = Reply(msg, "MARKET_INTELLIGENCE_RETRIEVED",
                     [intelligence |->
                        gatherMarketIntelligence(msg.payload, feedbackHistory,
                                                 marketSegments, externalInterfaces)]
                     @@ Stamp(now, now))
    /\ UNCHANGED <<now, marketVars>>

handlePotentialOptimization(msg) ==
    /\ MarketDispatch(msg.type) = "handlePotentialOptimization"
    /\ req' = msg
    /\ resp' = Reply(msg, "POTENTIAL_OPTIMIZED",
                     [optimization |-> optimizeForPotential(msg.payload)]
                     @@ Stamp(now, now))
    /\ UNCHANGED <<now, marketVars>>

MarketUnknownType(msg) ==
    /\ MarketDispatch(msg.type) = "default"
    /\ req' = msg
    /\ resp' = ReturnedNull
    /\ UNCHANGED <<now, marketVars>>

MarketProcess(msg) ==
    \/ handleMarketAnalysis(msg)
    \/ handleInterfaceStatus(msg)
    \/ handleInterfaceRegistration(msg)
    \/ handleFeedbackProcessing(msg)
    \/ handleGetIntelligence(msg)
    \/ handlePotentialOptimization(msg)
    \/ MarketUnknownType(msg)

----
\* SalesService

SalesServiceName == "sales-service"

DefaultMarketThreshold == 70
RecommendBelow == 70
OptimizeBelow == 80
RecentAssessmentCount == 100
TrendWindow == 5
TrendMinimum == 10

\* The Math.random() outcomes of one handler run, in call order.  The model
\* follows the runs in which every call of the run returns the same value.
RandomDraws == {[k \in 1..8 |-> r] : r \in RandomValues}

\* Reading a property of an output or content that the payload left out
\* raises a TypeError.
ReadsUndefined(payload, field) == ~Has(payload, field)

evaluateAccuracy(output, r) ==
    LET hasData == Has(output, "data") \/ Has(output, "content") \/ Has(output, "result")
        hasMetadata == Has(output, "metadata") \/ Has(output, "source")
        score == 50 + (IF hasData THEN 30 ELSE 0) + (IF hasMetadata THEN 20 ELSE 0)
    IN  Min(score + r \div 10, One)

evaluateCompleteness(output, r) ==
    Min(Cardinality(DOMAIN output) * 10 + 50 + r \div 10, One)

evaluateRelevance(r) == 70 + (3 * r) \div 10

evaluateClarity(r) == 75 + r \div 4

evaluateTimeliness(r) == 80 + r \div 5

generateRecommendations(dimensions) ==
    LET recommendations ==
            (IF dimensions.accuracy < RecommendBelow
             THEN <<"Improve data accuracy through additional validation">> ELSE <<>>)
            \o (IF dimensions.completeness < RecommendBelow
                THEN <<"Add missing data fields for completeness">> ELSE <<>>)
            \o (IF dimensions.relevance < RecommendBelow
                THEN <<"Refine content to better match target requirements">> ELSE <<>>)
            \o (IF dimensions.clarity < RecommendBelow
                THEN <<"Restructure output for improved clarity">> ELSE <<>>)
            \o (IF dimensions.timeliness < RecommendBelow
                THEN <<"Optimize processing pipeline for faster delivery">> ELSE <<>>)
    IN  IF Len(recommendations) = 0 THEN <<"Output meets quality standards">>
        ELSE recommendations

\* qualityScore is the mean of the five dimensions; it is kept as their sum,
\* in five-hundredths.
assessQuality(output, rnd, t) ==
    LET dimensions ==
            [accuracy |-> evaluateAccuracy(output, rnd[1]),
             completeness |-> evaluateCompleteness(output, rnd[2]),
             relevance |-> evaluateRelevance(rnd[3]),
             clarity |-> evaluateClarity(rnd[4]),
             timeliness |-> evaluateTimeliness(rnd[5])]
    IN  [id |-> Id("qa", t),
         outputId |-> Get(output, "id", Id("output", t)),
         qualityScore |-> dimensions.accuracy + dimensions.completeness
                          + dimensions.relevance + dimensions.clarity
                          + dimensions.timeliness,
         dimensions |-> dimensions,
         recommendations |-> generateRecommendations(dimensions),
         timestamp |-> t]

\* channels.filter(() => Math.random() > 0.1), one draw per channel.
promoteToChannels(content, channels, rnd, t) ==
    LET kept == {k \in 1..Len(channels) : rnd[k] > 10}
        Position(k) == Cardinality({j \in kept : j <= k})
        successfulChannels ==
            [n \in 1..Cardinality(kept) |->
                channels[CHOOSE k \in kept : Position(k) = n]]
    IN  [id |-> Id("promo", t),
         contentId |-> Get(content, "id", Id("content", t)),
         channels |-> successfulChannels,
         reach |-> Len(successfulChannels) * 100 + 5 * rnd[6],
         engagement |-> rnd[7],
         status |-> IF Len(successfulChannels) > 0 THEN "promoted" ELSE "failed"]

checkMarketReadiness(output, thresholds, rnd, t) ==
    LET assessment == assessQuality(output, rnd, t)
        threshold == IF MapHas(thresholds, "market") /\ MapGet(thresholds, "market").value # 0
                     THEN MapGet(thresholds, "market").value
                     ELSE DefaultMarketThreshold
        criteria == [qualityThreshold |-> assessment.qualityScore >= 5 * threshold,
                     complianceCheck |-> rnd[6] > 20,
                     formatValidation |-> rnd[7] > 15,
                     targetAlignment |-> rnd[8] > 25]
        met == {c \in DOMAIN criteria : criteria[c]}
    IN  [ready |-> met = DOMAIN criteria,
         score |-> 25 * Cardinality(met),
         criteria |-> criteria,
         blockers |->
            (IF ~criteria.qualityThreshold THEN <<"Quality below threshold">> ELSE <<>>)
            \o (IF ~criteria.complianceCheck
                THEN <<"Compliance verification pending">> ELSE <<>>)
            \o (IF ~criteria.formatValidation
                THEN <<"Format validation failed">> ELSE <<>>)
            \o (IF ~criteria.targetAlignment
                THEN <<"Target audience alignment needed">> ELSE <<>>)]

\* assessments.reduce((sum, a) => sum + F(a), 0)
RECURSIVE SumSeq(_)
SumSeq(numbers) ==
    IF Len(numbers) = 0 THEN 0 ELSE numbers[1] + SumSeq(Tail(numbers))
SumOf(assessments, field) ==
    SumSeq([k \in 1..Len(assessments) |-> assessments[k].dimensions[field]])
SumScores(assessments) ==
    SumSeq([k \in 1..Len(assessments) |-> assessments[k].qualityScore])

\* Every average is kept as the fraction sum / count.
calculateDimensionAverages(assessments) ==
    LET count == IF Len(assessments) = 0 THEN 1 ELSE Len(assessments)
    IN  [accuracy |-> [sum |-> SumOf(assessments, "accuracy"), count |-> count],
         completeness |-> [sum |-> SumOf(assessments, "completeness"), count |-> count],
         relevance |-> [sum |-> SumOf(assessments, "relevance"), count |-> count],
         clarity |-> [sum |-> SumOf(assessments, "clarity"), count |-> count],
         timeliness |-> [sum |-> SumOf(assessments, "timeliness"), count |-> count]]

\* recentAvg - olderAvg against 0.05, both windows holding five scores that
\* are kept in five-hundredths.
calculateTrend(assessments) ==
    LET recent == SliceLast(assessments, TrendWindow)
        older == SliceFirst(SliceLast(assessments, 2 * TrendWindow), TrendWindow)
        diff == SumScores(recent) - SumScores(older)
    IN  IF Len(assessments) < TrendMinimum THEN "stable"
        ELSE IF diff > 5 * 5 * TrendWindow THEN "improving"
        ELSE IF diff < 0 - 5 * 5 * TrendWindow THEN "declining"
        ELSE "stable"

getQualityMetrics(history) ==
    LET recentAssessments == SliceLast(history, RecentAssessmentCount)
    IN  [totalAssessments |-> Len(history),
         averageScore |->
            IF Len(recentAssessments) > 0
            THEN [sum |-> SumScores(recentAssessments),
                  count |-> 5 * Len(recentAssessments)]
            ELSE [sum |-> 0, count |-> 1],
         dimensionAverages |-> calculateDimensionAverages(recentAssessments),
         trendDirection |-> calculateTrend(recentAssessments)]

generateMarketOptimizations(assessment, targetMarket) ==
    (IF assessment.dimensions.clarity < OptimizeBelow
     THEN << <<"Restructure for improved market clarity">> >> ELSE <<>>)
    \o (IF assessment.dimensions.relevance < OptimizeBelow
        THEN << <<"Align content with market expectations", targetMarket>> >> ELSE <<>>)
    \o (IF assessment.dimensions.completeness < OptimizeBelow
        THEN << <<"Add market-specific metadata and tags">> >> ELSE <<>>)
    \o << <<"Apply market-appropriate formatting">>,
          <<"Optimize delivery timing for target audience">> >>

SalesDispatch(type) ==
    CASE type = "ASSESS_QUALITY" -> "handleQualityAssessment"
      [] type = "PROMOTE_OUTPUT" -> "handleOutputPromotion"
      [] type = "CHECK_MARKET_READINESS" -> "handleMarketReadinessCheck"
      [] type = "GET_QUALITY_METRICS" -> "handleGetQualityMetrics"
      [] type = "OPTIMIZE_FOR_MARKET" -> "handleMarketOptimization"
      [] OTHER -> "default"

InitSales ==
    /\ qualityThresholds =
          <<Entry("market", 70), Entry("premium", 85), Entry("standard", 60)>>
    /\ promotionChannels =
          <<"primary-output", "analytics-feed", "integration-hub", "external-api",
            "dashboard-display">>
    /\ assessmentHistory = <<>>

SalesTypes ==
    {"ASSESS_QUALITY", "PROMOTE_OUTPUT", "CHECK_MARKET_READINESS",
     "GET_QUALITY_METRICS", "OPTIMIZE_FOR_MARKET"}

RichOutput == [id |-> Id("out", 1), data |-> "d", metadata |-> "m"]

\* Types next to a recognized one: the empty string, another case, a prefix.
SalesUnrecognizedTypes == {"", "assess_quality", "ASSESS"}

SalesPayloads(type) ==
    CASE type = "ASSESS_QUALITY" ->
            {EmptyPayload, [output |-> EmptyPayload], [output |-> RichOutput]}
      [] type = "PROMOTE_OUTPUT" ->
            {EmptyPayload, [content |-> [id |-> Id("c", 1)]],
             [content |-> EmptyPayload, targetChannels |-> <<"external-api">>]}
      [] type = "CHECK_MARKET_READINESS" ->
            {EmptyPayload, [output |-> RichOutput]}
      [] type = "GET_QUALITY_METRICS" ->
            {EmptyPayload}
      [] type = "OPTIMIZE_FOR_MARKET" ->
            {EmptyPayload, [output |-> EmptyPayload, targetMarket |-> "eu"]}
      [] OTHER ->
            {[output |-> RichOutput]}

SalesMessages ==
    UNION {{Message(type, p) : p \in SalesPayloads(type)} :
             type \in SalesTypes \cup SalesUnrecognizedTypes}

\* Faulty variant: the catch block drops the assessment history before it
\* rethrows.
RethrowDroppingHistory ==
    /\ resp' = Thrown
    /\ assessmentHistory' = <<>>
    /\ UNCHANGED <<qualityThresholds, promotionChannels>>

\* The catch block of process logs and rethrows.
Rethrow ==
    /\ resp' = Thrown
    /\ UNCHANGED salesVars

handleQualityAssessment(msg) ==
    /\ SalesDispatch(msg.type) = "handleQualityAssessment"
    /\ req' = msg
    /\ IF ReadsUndefined(msg.payload, "output")
       THEN Rethrow
       ELSE \E rnd \in RandomDraws :
               LET assessment == assessQuality(msg.payload.output, rnd, now)
               IN  /\ assessmentHistory' = Append(assessmentHistory, assessment)
                   /\ resp' = Reply(msg, "QUALITY_ASSESSED",
                                    [assessment |-> assessment] @@ Stamp(now, now))
                   /\ UNCHANGED <<qualityThresholds, promotionChannels>>
    /\ UNCHANGED now

handleOutputPromotion(msg) ==
    /\ SalesDispatch(msg.type) = "handleOutputPromotion"
    /\ req' = msg
    /\ IF ReadsUndefined(msg.payload, "content")
       THEN Rethrow
       ELSE \E rnd \in RandomDraws :
               LET channels == Get(msg.payload, "targetChannels", promotionChannels)
                   result == promoteToChannels(msg.payload.content, channels, rnd, now)
               IN  /\ resp' = Reply(msg, "OUTPUT_PROMOTED",
                                    [result |-> result] @@ Stamp(now, now))
                   /\ UNCHANGED salesVars
    /\ UNCHANGED now

handleMarketReadinessCheck(msg) ==
    /\ SalesDispatch(msg.type) = "handleMarketReadinessCheck"
    /\ req' = msg
    /\ IF ReadsUndefined(msg.payload, "output")
       THEN Rethrow
       ELSE \E rnd \in RandomDraws :
               LET readiness ==
                      checkMarketReadiness(msg.payload.output, qualityThresholds, rnd, now)
               IN  /\ resp' = Reply(msg, "MARKET_READINESS_CHECKED",
                                    [readiness |-> readiness] @@ Stamp(now, now))
                   /\ UNCHANGED salesVars
    /\ UNCHANGED now

handleGetQualityMetrics(msg) ==
    /\ SalesDispatch(msg.type) = "handleGetQualityMetrics"
    /\ req' = msg
    /\ resp' = Reply(msg, "QUALITY_METRICS_RETRIEVED",
                     [metrics |-> getQualityMetrics(assessmentHistory)]
                     @@ Stamp(now, now))
    /\ UNCHANGED <<now, salesVars>>

\* Faulty variant: the assessment made for the optimization is recorded in
\* the history.
handleMarketOptimizationRecording(msg) ==
    /\ SalesDispatch(msg.type) = "handleMarketOptimization"
    /\ req' = msg
    /\ IF ReadsUndefined(msg.payload, "output")
       THEN Rethrow
       ELSE \E rnd \in RandomDraws :
               LET assessment == assessQuality(msg.payload.output, rnd, now)
                   optimizations ==
                      generateMarketOptimizations(
                          assessment, Get(msg.payload, "targetMarket", "target"))
               IN  /\ resp' = Reply(msg, "MARKET_OPTIMIZATION_COMPLETE",
                                    [originalScore |-> assessment.qualityScore,
                                     optimizations |-> optimizations,
                                     projectedImprovement |-> 5 * Len(optimizations)]
                                    @@ Stamp(now, now))
                   /\ assessmentHistory' = Append(assessmentHistory, assessment)
                   /\ UNCHANGED <<qualityThresholds, promotionChannels>>
    /\ UNCHANGED now

handleMarketOptimization(msg) ==
    /\ SalesDispatch(msg.type) = "handleMarketOptimization"
    /\ req' = msg
    /\ IF ReadsUndefined(msg.payload, "output")
       THEN Rethrow
       ELSE \E rnd \in RandomDraws :
               LET assessment == assessQuality(msg.payload.output, rnd, now)
                   optimizations ==
                      generateMarketOptimizations(
                          assessment, Get(msg.payload, "targetMarket", "target"))
               IN  /\ resp' = Reply(msg, "MARKET_OPTIMIZATION_COMPLETE",
                                    [originalScore |-> assessment.qualityScore,
                                     optimizations |-> optimizations,
                                     projectedImprovement |-> 5 * Len(optimizations)]
                                    @@ Stamp(now, now))
                   /\ UNCHANGED salesVars
    /\ UNCHANGED now

SalesUnknownType(msg) ==
    /\ SalesDispatch(msg.type) = "default"
    /\ req' = msg
    /\ resp' = ReturnedNull
    /\ UNCHANGED <<now, salesVars>>

SalesProcess(msg) ==
    \/ handleQualityAssessment(msg)
    \/ handleOutputPromotion(msg)
    \/ handleMarketReadinessCheck(msg)
    \/ handleGetQualityMetrics(msg)
    \/ handleMarketOptimization(msg)
    \/ SalesUnknownType(msg)

----
\* The clock advances between two process calls.
AdvanceClock ==
    /\ \E d \in {1, NextExecutionDelay} :
          /\ InClock(now + d)
          /\ now' = now + d
    /\ UNCHANGED <<serviceName, calls, op, inflight, req, resp, res, storeVars>>

\* The stores of a service class the process does not run.
NoOrganization ==
    /\ organizations = <<>>
    /\ coordinations = <<>>
    /\ maintenanceTasks = <<>>
    /\ systemHealth = <<>>
NoTreasury ==
    /\ motorMemoryStore = <<>>
    /\ learnedSkills = <<>>
    /\ accessLog = <<>>
    /\ treasuryShared = <<>>
NoDevelopment ==
    /\ developmentPlans = <<>>
    /\ optimizationHistory = <<>>
    /\ resourceAllocations = <<>>
    /\ devShared = <<>>
NoMarket ==
    /\ marketSegments = <<>>
    /\ externalInterfaces = <<>>
    /\ feedbackHistory = <<>>
    /\ marketIntelligence = <<>>
NoSales ==
    /\ qualityThresholds = <<>>
    /\ promotionChannels = <<>>
    /\ assessmentHistory = <<>>

Started(name) ==
    /\ serviceName = name
    /\ now = 0
    /\ calls = 0
    /\ op = "construct"
    /\ inflight = [i \in 1..MaxInFlight |-> Idle]
    /\ req = Idle
    /\ resp = Idle
    /\ res = Idle

\* One more call is made on the service.
Counted ==
    /\ calls < MaxCalls
    /\ calls' = calls + 1
    /\ UNCHANGED <<serviceName, inflight, res>>

\* The call is a process() call.
Processing == Counted /\ op' = "process"

InitOrg ==
    /\ Started(OrganizationServiceName)
    /\ InitOrganization
    /\ NoTreasury /\ NoDevelopment /\ NoMarket /\ NoSales

OrgCall ==
    /\ Processing
    /\ \E msg \in OrgMessages : OrgProcess(msg)
    /\ UNCHANGED <<treasuryVars, devVars, marketVars, salesVars>>

NextOrg ==
    \/ OrgCall
    \/ AdvanceClock

SpecOrg == InitOrg /\ [][NextOrg]_vars

InitTreasuryService ==
    /\ Started(TreasuryServiceName)
    /\ InitTreasury
    /\ NoOrganization /\ NoDevelopment /\ NoMarket /\ NoSales

TreasuryCall ==
    /\ Processing
    /\ \E msg \in TreasuryMessages : TreasuryProcess(msg)
    /\ UNCHANGED <<orgVars, devVars, marketVars, salesVars>>

NextTreasury ==
    \/ TreasuryCall
    \/ AdvanceClock

SpecTreasury == InitTreasuryService /\ [][NextTreasury]_vars

\* A treasury that is sent RETRIEVE_SKILL messages only, among them ones
\* that carry both a skillId and a skillName.
RetrievePayloads ==
    TreasuryPayloads("RETRIEVE_SKILL")
    \cup {[skillId |-> k, skillName |-> BasicQuery] :
            k \in KnownIds(motorMemoryStore) \cup {UnknownId}}
    \cup {[skillId |-> UnknownId, skillName |-> Overdrive]}

RetrieveCall ==
    /\ Processing
    /\ \E p \in RetrievePayloads : TreasuryProcess(Message("RETRIEVE_SKILL", p))
    /\ UNCHANGED <<orgVars, devVars, marketVars, salesVars>>

NextRetrieve ==
    \/ RetrieveCall
    \/ AdvanceClock

SpecRetrieve == InitTreasuryService /\ [][NextRetrieve]_vars

InitDevelopmentService ==
    /\ Started(DevelopmentServiceName)
    /\ InitDevelopment
    /\ NoOrganization /\ NoTreasury /\ NoMarket /\ NoSales

DevelopmentCall ==
    /\ Processing
    /\ \E msg \in DevelopmentMessages : DevelopmentProcess(msg)
    /\ UNCHANGED <<orgVars, treasuryVars, marketVars, salesVars>>

NextDevelopment ==
    \/ DevelopmentCall
    \/ AdvanceClock

SpecDevelopment == InitDevelopmentService /\ [][NextDevelopment]_vars

\* A development service that is sent plan creations and progress updates
\* only, up to MaxUpdates of them: enough to create a plan of three stages,
\* complete each stage and update one of them again.
ProgressPayloads ==
    DevelopmentPayloads("UPDATE_SKILL_PROGRESS")
    \cup {[planId |-> k, stageId |-> Id("stage", 3), progress |-> v] :
            k \in KnownIds(developmentPlans), v \in {0 - 20, 100}}

ProgressCall ==
    /\ calls < MaxUpdates
    /\ calls' = calls + 1
    /\ op' = "process"
    /\ \E msg \in {Message("CREATE_DEVELOPMENT_PLAN", p) :
                       p \in DevelopmentPayloads("CREATE_DEVELOPMENT_PLAN")}
                  \cup {Message("UPDATE_SKILL_PROGRESS", p) : p \in ProgressPayloads} :
          DevelopmentProcess(msg)
    /\ UNCHANGED <<serviceName, inflight, res, orgVars, treasuryVars, marketVars, salesVars>>

NextProgress ==
    \/ ProgressCall
    \/ AdvanceClock

SpecProgress == InitDevelopmentService /\ [][NextProgress]_vars

InitMarketService ==
    /\ Started(MarketServiceName)
    /\ InitMarket
    /\ NoOrganization /\ NoTreasury /\ NoDevelopment /\ NoSales

MarketCall ==
    /\ Processing
    /\ \E msg \in MarketMessages : MarketProcess(msg)
    /\ UNCHANGED <<orgVars, treasuryVars, devVars, salesVars>>

NextMarket ==
    \/ MarketCall
    \/ AdvanceClock

SpecMarket == InitMarketService /\ [][NextMarket]_vars

InitSalesService ==
    /\ Started(SalesServiceName)
    /\ InitSales
    /\ NoOrganization /\ NoTreasury /\ NoDevelopment /\ NoMarket

SalesCall ==
    /\ Processing
    /\ \E msg \in SalesMessages : SalesProcess(msg)
    /\ UNCHANGED <<orgVars, treasuryVars, devVars, marketVars>>

NextSales ==
    \/ SalesCall
    \/ AdvanceClock

SpecSales == InitSalesService /\ [][NextSales]_vars

\* Any one of the five services.
Init ==
    \/ InitOrg
    \/ InitTreasuryService
    \/ InitDevelopmentService
    \/ InitMarketService
    \/ InitSalesService

Next ==
    \/ serviceName = OrganizationServiceName /\ OrgCall
    \/ serviceName = TreasuryServiceName /\ TreasuryCall
    \/ serviceName = DevelopmentServiceName /\ DevelopmentCall
    \/ serviceName = MarketServiceName /\ MarketCall
    \/ serviceName = SalesServiceName /\ SalesCall
    \/ AdvanceClock

Spec == Init /\ [][Next]_vars

----
\* A fresh market service that is sent PROCESS_FEEDBACK messages only, up to
\* MaxPushes of them; the n-th message carries the metric value n % 100.
FeedbackMessage(n) ==
    Message("PROCESS_FEEDBACK", [metrics |-> [value |-> n % 100], source |-> "cpu"])

FeedbackCall ==
    /\ calls < MaxPushes
    /\ calls' = calls + 1
    /\ op' = "process"
    /\ handleFeedbackProcessing(FeedbackMessage(calls + 1))
    /\ UNCHANGED <<serviceName, inflight, res, orgVars, treasuryVars, devVars, salesVars>>

SpecFeedback == InitMarketService /\ [][FeedbackCall]_vars

\* A fresh market service that is sent up to MaxFeedback PROCESS_FEEDBACK
\* messages of several sources: none, 'cpu', and the literal 'unknown'.
TrendPayloads ==
    MarketPayloads("PROCESS_FEEDBACK")
    \cup {[metrics |-> [value |-> 10], source |-> "unknown"]}

TrendCall ==
    /\ calls < MaxFeedback
    /\ calls' = calls + 1
    /\ op' = "process"
    /\ \E p \in TrendPayloads : handleFeedbackProcessing(Message("PROCESS_FEEDBACK", p))
    /\ UNCHANGED <<serviceName, inflight, res, orgVars, treasuryVars, devVars, salesVars>>

SpecTrend == InitMarketService /\ [][TrendCall]_vars

----
\* Several process() invocations in flight on the organization service.  An
\* async function runs without interruption from its call to its first
\* await and from one await to the next; the only await inside a handler is
\* `await this.executeMaintenance(maintenance)` in handleExecuteMaintenance,
\* and executeMaintenance has run to its end when the handler is suspended
\* there.  The other handlers start and finish in one step.

\* Faulty variant: the handler is suspended once the task is marked
\* 'in-progress', before the results are written.
beginExecuteMaintenanceYielding(i, msg) ==
    /\ inflight[i] = Idle
    /\ calls < MaxCalls
    /\ calls' = calls + 1
    /\ op' = "process"
    /\ OrgDispatch(msg.type) = "handleExecuteMaintenance"
    /\ Has(msg.payload, "maintenanceId")
    /\ MapHas(maintenanceTasks, msg.payload.maintenanceId)
    /\ \E issuesFound \in IssuesFoundDraws :
       \E resolvedDraw \in IssuesResolvedDraws(issuesFound) :
          LET maintenance == MapGet(maintenanceTasks, msg.payload.maintenanceId)
              results == maintenanceResults(maintenance, issuesFound, resolvedDraw)
          IN  /\ maintenanceTasks' =
                    MapSet(maintenanceTasks, [maintenance EXCEPT !.status = "in-progress"])
              /\ inflight' = [inflight EXCEPT ![i] =
                                [kind |-> "awaiting", message |-> msg,
                                 startTime |-> now, maintenanceId |-> maintenance.id,
                                 results |-> results]]
    /\ UNCHANGED <<serviceName, now, req, resp, res, organizations, coordinations,
                   systemHealth, treasuryVars, devVars, marketVars, salesVars>>

\* process() is called with EXECUTE_MAINTENANCE for a stored task: the
\* handler runs executeMaintenance and is suspended at the await.
beginExecuteMaintenance(i, msg) ==
    /\ inflight[i] = Idle
    /\ calls < MaxCalls
    /\ calls' = calls + 1
    /\ op' = "process"
    /\ OrgDispatch(msg.type) = "handleExecuteMaintenance"
    /\ Has(msg.payload, "maintenanceId")
    /\ MapHas(maintenanceTasks, msg.payload.maintenanceId)
    /\ \E issuesFound \in IssuesFoundDraws :
       \E resolvedDraw \in IssuesResolvedDraws(issuesFound) :
          LET maintenance == MapGet(maintenanceTasks, msg.payload.maintenanceId)
              results == maintenanceResults(maintenance, issuesFound, resolvedDraw)
          IN  /\ maintenanceTasks' =
                    MapSet(maintenanceTasks, executeMaintenance(maintenance, results, now))
              /\ inflight' = [inflight EXCEPT ![i] =
                                [kind |-> "awaiting", message |-> msg,
                                 startTime |-> now, maintenanceId |-> maintenance.id,
                                 results |-> results]]
    /\ UNCHANGED <<serviceName, now, req, resp, res, organizations, coordinations,
                   systemHealth, treasuryVars, devVars, marketVars, salesVars>>

\* The suspended handler resumes: it builds the MAINTENANCE_EXECUTED message
\* from its local results and returns.
resumeExecuteMaintenance(i) ==
    /\ inflight[i] # Idle
    /\ req' = inflight[i].message
    /\ resp' = Reply(inflight[i].message, "MAINTENANCE_EXECUTED",
                     [maintenanceId |-> inflight[i].maintenanceId,
                      results |-> inflight[i].results]
                     @@ Stamp(inflight[i].startTime, now))
    /\ inflight' = [inflight EXCEPT ![i] = Idle]
    /\ UNCHANGED <<serviceName, now, calls, op, res, storeVars>>

NextConcurrent ==
    \/ \E i \in 1..MaxInFlight : \E msg \in OrgMessages : beginExecuteMaintenance(i, msg)
    \/ \E i \in 1..MaxInFlight : resumeExecuteMaintenance(i)
    \/ OrgCall
    \/ AdvanceClock

SpecConcurrent == InitOrg /\ [][NextConcurrent]_vars

----
\* The host of the organization service: an express application whose
\* routes build a message of a fixed type from the request, await process()
\* and answer with res.json or, in the catch block, res.status(500).json.
OrgRoutes ==
    {[path |-> "/create", type |-> "CREATE_ORGANIZATION"],
     [path |-> "/coordinate", type |-> "COORDINATE_BACKGROUND"],
     [path |-> "/schedule", type |-> "SCHEDULE_MAINTENANCE"],
     [path |-> "/execute", type |-> "EXECUTE_MAINTENANCE"],
     [path |-> "/status", type |-> "GET_ORGANIZATION_STATUS"],
     [path |-> "/optimize", type |-> "OPTIMIZE_ORGANIZATION"],
     [path |-> "/sync", type |-> "SYNC_WITH_STATE_MANAGEMENT"]}

\* The payload of the message: req.body on the POST routes; on GET /status
\* the object built from the query, { organizationId: req.query.id,
\* includeComponents: req.query.includeComponents === 'true' }.
RoutePayloads(route) ==
    IF route.path = "/status"
    THEN {[includeComponents |-> b] : b \in BOOLEAN}
         \cup {[organizationId |-> k, includeComponents |-> b] :
                 k \in MapKeys(organizations) \cup {UnknownId}, b \in BOOLEAN}
    ELSE OrgPayloads(route.type)

\* Faulty variant: the catch block answers like the success path.
respondHidingFaults(response) ==
    [status |-> 200,
     body |-> IF response = Thrown THEN [error |-> "Internal server error"]
              ELSE IF response = ReturnedNull THEN [error |-> "No response generated"]
              ELSE response.payload]

\* res.json(response?.payload || { error: 'No response generated' }) with the
\* default status 200, or res.status(500).json({ error: 'Internal server
\* error' }) when the awaited process() raised.
respond(response) ==
    IF response = Thrown
    THEN [status |-> 500, body |-> [error |-> "Internal server error"]]
    ELSE [status |-> 200,
          body |-> IF response = ReturnedNull THEN [error |-> "No response generated"]
                   ELSE response.payload]

\* One request served by a route of the host.
OrgRoute(route) ==
    /\ calls < MaxCalls
    /\ calls' = calls + 1
    /\ op' = "process"
    /\ \E payload \in RoutePayloads(route) :
          OrgProcess(createMessage(route.type, payload, Gateway, serviceName))
    /\ res' = respond(resp')
    /\ UNCHANGED <<serviceName, inflight, treasuryVars, devVars, marketVars, salesVars>>

NextHost ==
    \/ \E route \in OrgRoutes : OrgRoute(route)
    \/ AdvanceClock

SpecHost == InitOrg /\ [][NextHost]_vars

----
\* An organization service that is sent OPTIMIZE_ORGANIZATION messages only,
\* up to MaxOptimizations of them.
OptimizeCall ==
    /\ calls < MaxOptimizations
    /\ calls' = calls + 1
    /\ op' = "process"
    /\ \E p \in OrgPayloads("OPTIMIZE_ORGANIZATION") :
          handleOptimizeOrganization(Message("OPTIMIZE_ORGANIZATION", p))
    /\ UNCHANGED <<serviceName, inflight, res, treasuryVars, devVars, marketVars, salesVars>>

NextOptimize ==
    \/ OptimizeCall
    \/ AdvanceClock

SpecOptimize == InitOrg /\ [][NextOptimize]_vars

----
\* The API gateway: an express application that answers /health and
\* /api/docs itself, mounts one proxy per entry of its services table and
\* ends with a catch-all.  A path is the sequence of its segments, so that
\* a mount path matches a request path when it is a prefix of it, as express
\* matches app.use paths at segment boundaries.
GatewayName == "api-gateway"

Service(triad, service, url, path, serviceType) ==
    [triad |-> triad, service |-> service, url |-> url, path |-> path,
     serviceType |-> serviceType]

\* The services table, in the order of Object.entries.
services ==
    <<Service("cerebral", "thought-service", "http://thought-service:3001",
              <<"cerebral", "thoughts">>, "T-7"),
      Service("cerebral", "processing-director", "http://processing-director:3002",
              <<"cerebral", "processing">>, "PD-2"),
      Service("cerebral", "processing-service", "http://cerebral-processing:3003",
              <<"cerebral", "process">>, "P-5"),
      Service("cerebral", "output-service", "http://cerebral-output:3004",
              <<"cerebral", "output">>, "O-4"),
      Service("cerebral", "sales-service", "http://cerebral-sales:3005",
              <<"cerebral", "sales">>, "S-8"),
      Service("cerebral", "market-service", "http://cerebral-market:3006",
              <<"cerebral", "market">>, "M-1"),
      Service("somatic", "development-service", "http://somatic-development:3015",
              <<"somatic", "development">>, "PD-2"),
      Service("somatic", "treasury-service", "http://somatic-treasury:3016",
              <<"somatic", "treasury">>, "T-7"),
      Service("somatic", "processing-service", "http://somatic-processing:3013",
              <<"somatic", "process">>, "P-5"),
      Service("somatic", "output-service", "http://somatic-output:3014",
              <<"somatic", "output">>, "O-4"),
      Service("somatic", "sensory-service", "http://sensory:3012",
              <<"somatic", "sensory">>, "S-8"),
      Service("somatic", "motor-control-service", "http://motor-control:3011",
              <<"somatic", "motor">>, "M-1"),
      Service("autonomic", "process-director", "http://autonomic-director:3023",
              <<"autonomic", "director">>, "PD-2"),
      Service("autonomic", "trigger-service", "http://trigger:3025",
              <<"autonomic", "trigger">>, "T-7"),
      Service("autonomic", "processing-service", "http://autonomic-processing:3024",
              <<"autonomic", "process">>, "P-5"),
      Service("autonomic", "organization-service", "http://autonomic-organization:3026",
              <<"autonomic", "organization">>, "O-4"),
      Service("autonomic", "state-management", "http://state-management:3022",
              <<"autonomic", "state">>, "S-8"),
      Service("autonomic", "monitoring-service", "http://monitoring:3021",
              <<"autonomic", "monitoring">>, "M-1")>>

\* The service-discovery list of the README: the path after
\* http://localhost:3000 and the service type it names, in the triad the
\* path starts with.
Discovery(path, serviceType) == [path |-> path, serviceType |-> serviceType]

ServiceDiscovery ==
    {Discovery(<<"cerebral", "thoughts">>, "T-7"),
     Discovery(<<"cerebral", "coordinate">>, "PD-2"),
     Discovery(<<"cerebral", "process">>, "P-5"),
     Discovery(<<"cerebral", "output">>, "O-4"),
     Discovery(<<"somatic", "motor">>, "M-1"),
     Discovery(<<"somatic", "sensory">>, "S-8"),
     Discovery(<<"somatic", "process">>, "P-5"),
     Discovery(<<"somatic", "output">>, "O-4"),
     Discovery(<<"autonomic", "monitor">>, "M-1"),
     Discovery(<<"autonomic", "state">>, "S-8"),
     Discovery(<<"autonomic", "director">>, "PD-2"),
     Discovery(<<"autonomic", "process">>, "P-5"),
     Discovery(<<"autonomic", "trigger">>, "T-7")}

\* The requests the gateway is sent: the mount paths, the documented paths,
\* paths below a mount, the gateway's own routes and paths nobody serves.
GatewayPaths ==
    {services[i].path : i \in DOMAIN services}
    \cup {d.path : d \in ServiceDiscovery}
    \cup {<<"cerebral", "thoughts", "generate">>, <<"autonomic", "organization", "status">>,
          <<"health">>, <<"api", "docs">>, <<"api">>, <<"cerebral">>, <<"unknown">>, <<>>}

GatewayRequests == {[method |-> m, path |-> p] : m \in {"GET", "POST"}, p \in GatewayPaths}

\* app.use(path, ...) matches the requests whose path starts with path.
Mounted(mount, path) ==
    Len(mount) <= Len(path) /\ SubSeq(path, 1, Len(mount)) = mount

\* The proxy forwards to the target with the mount path removed
\* (pathRewrite), or answers 503 from onError when the target fails.
Forwarded(entry, request) ==
    [target |-> entry.url, service |-> entry.service, triad |-> entry.triad,
     serviceType |-> entry.serviceType, method |-> request.method,
     path |-> SubSeq(request.path, Len(entry.path) + 1, Len(request.path))]

ServiceUnavailable(entry) ==
    [status |-> 503,
     body |-> [error |-> "Service unavailable", service |-> entry.service,
               triad |-> entry.triad]]

EndpointNotFound ==
    [status |-> 404,
     body |-> [error |-> "Endpoint not found",
               message |-> "This endpoint does not exist in the Cognitive Cities API",
               availableRoutes |-> "/api/docs"]]

\* The two routes the gateway answers itself.
IsLocal(request) ==
    request.method = "GET" /\ request.path \in {<<"health">>, <<"api", "docs">>}

LocalAnswer(request) ==
    IF request.path = <<"health">>
    THEN [status |-> 200,
          body |-> [status |-> "healthy", version |-> "1.0.0", services |-> 3]]
    ELSE [status |-> 200,
          body |-> [title |-> "Cognitive Cities API Gateway - System 5",
                    version |-> "2.0.0",
                    routes |-> [i \in DOMAIN services |->
                                  [triad |-> services[i].triad,
                                   service |-> services[i].service,
                                   serviceType |-> services[i].serviceType,
                                   path |-> services[i].path]]]]

\* The middleware chain: the local routes, then the proxies in the order
\* they were mounted, then the catch-all.
Mounts(request) == {i \in DOMAIN services : Mounted(services[i].path, request.path)}

Route(request) ==
    IF IsLocal(request) THEN {LocalAnswer(request)}
    ELSE IF Mounts(request) # {}
    THEN LET first == CHOOSE i \in Mounts(request) : \A j \in Mounts(request) : i <= j
         IN  {Forwarded(services[first], request), ServiceUnavailable(services[first])}
    ELSE {EndpointNotFound}

InitGateway ==
    /\ Started(GatewayName)
    /\ NoOrganization /\ NoTreasury /\ NoDevelopment /\ NoMarket /\ NoSales

GatewayRequest ==
    /\ calls < MaxCalls
    /\ calls' = calls + 1
    /\ op' = "request"
    /\ \E request \in GatewayRequests :
          /\ req' = request
          /\ res' \in Route(request)
    /\ UNCHANGED <<serviceName, now, inflight, resp, storeVars>>

SpecGateway == InitGateway /\ [][GatewayRequest]_vars

----
\* The life cycle of a service: the host calls initialize() after the
\* constructor and shutdown() on exit; both are public methods that can be
\* called at any time.

\* Faulty variant: initialize() of the organization service runs
\* initializeOrganizationFramework once more.
initializeSeedingAgain ==
    /\ Counted
    /\ op' = "initialize"
    /\ IF serviceName = OrganizationServiceName
       THEN /\ organizations' =
                  MapSet(organizations,
                         createOrganization("autonomic-core", "coordination", <<>>, now, now))
            /\ coordinations' =
                  MapSet(coordinations,
                         createBackgroundCoordination("system-health", DefaultParticipants,
                                                      "high", "1m", now, now))
            /\ UNCHANGED <<maintenanceTasks, systemHealth>>
       ELSE UNCHANGED orgVars
    /\ UNCHANGED <<now, req, resp, treasuryVars, devVars, marketVars, salesVars>>

\* Faulty variant: initialize() of the treasury service empties the access
\* log.
initializeClearingLog ==
    /\ Counted
    /\ op' = "initialize"
    /\ accessLog' = <<>>
    /\ UNCHANGED <<now, req, resp, orgVars, motorMemoryStore, learnedSkills,
                   treasuryShared, devVars, marketVars, salesVars>>

\* initialize() of each of the five classes only writes log lines.
initialize ==
    /\ Counted
    /\ op' = "initialize"
    /\ UNCHANGED <<now, req, resp, storeVars>>

\* Faulty variant: shutdown() leaves the organizations as they are.
shutdownOrganizationKeepsStatus ==
    /\ serviceName = OrganizationServiceName
    /\ UNCHANGED orgVars

\* OrganizationService.shutdown marks every organization inactive.
shutdownOrganization ==
    /\ serviceName = OrganizationServiceName
    /\ organizations' =
          [i \in 1..Len(organizations) |->
             [organizations[i] EXCEPT !.status = "inactive"]]
    /\ UNCHANGED <<coordinations, maintenanceTasks, systemHealth>>

\* TreasuryService.shutdown
shutdownTreasury ==
    /\ serviceName = TreasuryServiceName
    /\ treasuryShared' = Put(treasuryShared, "status", "shutting-down")
    /\ UNCHANGED <<motorMemoryStore, learnedSkills, accessLog>>

\* DevelopmentService.shutdown
shutdownDevelopment ==
    /\ serviceName = DevelopmentServiceName
    /\ devShared' =
          MapSet(devShared,
                 Entry("shutdown", [timestamp |-> now, reason |-> "graceful-shutdown"]))
    /\ UNCHANGED <<developmentPlans, optimizationHistory, resourceAllocations>>

\* MarketService.shutdown and SalesService.shutdown only write a log line.
shutdownMarket ==
    /\ serviceName = MarketServiceName
    /\ UNCHANGED marketVars
shutdownSales ==
    /\ serviceName = SalesServiceName
    /\ UNCHANGED salesVars

Stopping ==
    /\ Counted
    /\ op' = "shutdown"
    /\ UNCHANGED <<now, req, resp>>

NextLifecycle ==
    \/ Next
    \/ initialize
    \/ Stopping /\ shutdownOrganization
                /\ UNCHANGED <<treasuryVars, devVars, marketVars, salesVars>>
    \/ Stopping /\ shutdownTreasury
                /\ UNCHANGED <<orgVars, devVars, marketVars, salesVars>>
    \/ Stopping /\ shutdownDevelopment
                /\ UNCHANGED <<orgVars, treasuryVars, marketVars, salesVars>>
    \/ Stopping /\ shutdownMarket
                /\ UNCHANGED <<orgVars, treasuryVars, devVars, salesVars>>
    \/ Stopping /\ shutdownSales
                /\ UNCHANGED <<orgVars, treasuryVars, devVars, marketVars>>

SpecLifecycle == Init /\ [][NextLifecycle]_vars

----
\* Observations used by the properties below.
IsEnvelope(r) == r.kind = "envelope"
Answered(type) == IsEnvelope(resp) /\ req.type = type
IsCall == calls' = calls + 1 /\ op' = "process"
Terminal(m) == m.status \in {"completed", "failed"}

----
\* C3: SCHEDULE_MAINTENANCE stores a task with status 'scheduled' and
\* completedAt null; EXECUTE_MAINTENANCE with the id of a stored task leaves
\* that task 'completed' or 'failed' with completedAt non-null.
C3_ScheduleThenExecute ==
    /\ Answered("SCHEDULE_MAINTENANCE") =>
          /\ resp.type = "MAINTENANCE_SCHEDULED"
          /\ MapHas(maintenanceTasks, resp.payload.maintenance.id)
          /\ MapGet(maintenanceTasks, resp.payload.maintenance.id) = resp.payload.maintenance
          /\ resp.payload.maintenance.status = "scheduled"
          /\ resp.payload.maintenance.completedAt = Null
    /\ (Answered("EXECUTE_MAINTENANCE") /\ resp.type = "MAINTENANCE_EXECUTED") =>
          /\ resp.payload.maintenanceId = req.payload.maintenanceId
          /\ MapHas(maintenanceTasks, resp.payload.maintenanceId)
          /\ LET m == MapGet(maintenanceTasks, resp.payload.maintenanceId)
             IN  /\ Terminal(m)
                 /\ m.completedAt # Null
                 /\ m.results = resp.payload.results

\* A task scheduled by one call has been executed by a later one.
C3_Witness ==
    /\ Answered("EXECUTE_MAINTENANCE")
    /\ resp.type = "MAINTENANCE_EXECUTED"
    /\ calls >= 2
    /\ MapGet(maintenanceTasks, resp.payload.maintenanceId).status = "failed"

\* C4 as stated: every task, executed or not, has issuesResolved <=
\* issuesFound and success = (issuesResolved >= issuesFound), and an executed
\* task is 'completed' exactly when success is true, 'failed' otherwise.
C4_AsStated ==
    \A i \in 1..Len(maintenanceTasks) :
        LET m == maintenanceTasks[i] IN
        /\ m.results.issuesResolved <= m.results.issuesFound
        /\ m.results.success = (m.results.issuesResolved >= m.results.issuesFound)
        /\ m.completedAt # Null =>
              m.status = IF m.results.success THEN "completed" ELSE "failed"

\* C4 amended: every task has issuesResolved <= issuesFound; every task that
\* has been executed has success = (issuesResolved >= issuesFound) and is
\* 'completed' exactly when success is true and 'failed' otherwise; a task
\* not yet executed is 'scheduled' with success false and no issues counted.
C4_ExecutedTasksConsistent ==
    \A i \in 1..Len(maintenanceTasks) :
        LET m == maintenanceTasks[i] IN
        /\ m.results.issuesResolved <= m.results.issuesFound
        /\ m.completedAt # Null =>
              /\ m.results.success = (m.results.issuesResolved >= m.results.issuesFound)
              /\ m.status = IF m.results.success THEN "completed" ELSE "failed"
        /\ m.completedAt = Null =>
              /\ m.status = "scheduled"
              /\ ~m.results.success
              /\ m.results.issuesFound = 0
              /\ m.results.issuesResolved = 0

\* An executed task that found more issues than it resolved, beside one that
\* has not been executed.
C4_Witness ==
    /\ \E i \in 1..Len(maintenanceTasks) :
          /\ maintenanceTasks[i].status = "failed"
          /\ maintenanceTasks[i].results.issuesFound = 2
          /\ maintenanceTasks[i].results.issuesResolved = 1
    /\ \E i \in 1..Len(maintenanceTasks) : maintenanceTasks[i].status = "scheduled"

\* C5: once a task is 'completed' or 'failed', no later step changes its
\* status, completedAt or results.
C5_TerminalIsFinal ==
    [][\A i \in 1..Len(maintenanceTasks) :
          Terminal(maintenanceTasks[i]) =>
             /\ i <= Len(maintenanceTasks')
             /\ maintenanceTasks'[i].id = maintenanceTasks[i].id
             /\ maintenanceTasks'[i].status = maintenanceTasks[i].status
             /\ maintenanceTasks'[i].completedAt = maintenanceTasks[i].completedAt
             /\ maintenanceTasks'[i].results = maintenanceTasks[i].results]_vars

\* C7: OPTIMIZE_ORGANIZATION with an organizationId that is no key of the
\* organizations store answers with an error and the requested id.
C7_OptimizeUnknownIsNotFound ==
    (/\ Answered("OPTIMIZE_ORGANIZATION")
     /\ Has(req.payload, "organizationId")
     /\ ~MapHas(organizations, req.payload.organizationId)) =>
        /\ Has(resp.payload, "error")
        /\ resp.payload.organizationId = req.payload.organizationId

\* The types the running service's switch lists.
RecognizedTypes ==
    CASE serviceName = OrganizationServiceName -> OrgTypes
      [] serviceName = TreasuryServiceName -> TreasuryTypes
      [] serviceName = DevelopmentServiceName -> DevelopmentTypes
      [] serviceName = MarketServiceName -> MarketTypes
      [] serviceName = SalesServiceName -> SalesTypes

\* C1: for every service and every message of a recognized type, with any
\* payload, process returns an envelope whose payload.source is the service's
\* own name and whose payload.processingTime is >= 0.
C1_RecognizedTypeAnswers ==
    (calls > 0 /\ req.type \in RecognizedTypes) =>
        /\ IsEnvelope(resp)
        /\ resp.payload.source = serviceName
        /\ resp.payload.processingTime >= 0

\* C2: for every service and every message whose type is not exactly one of
\* the service's recognized types (a prefix, another case, the empty string),
\* process returns null without throwing and leaves every store unchanged.
C2_UnrecognizedReturnsNull ==
    [][(IsCall /\ req'.type \notin RecognizedTypes) =>
          /\ resp' = ReturnedNull
          /\ storeVars' = storeVars]_vars

\* A lower-case spelling of a recognized type has been handed to a service
\* that holds entities, and null came back.
C2_Witness ==
    /\ calls >= 2
    /\ req.type \in {"execute_maintenance", "process_feedback"}
    /\ resp = ReturnedNull
    /\ Len(maintenanceTasks) + Len(feedbackHistory) > 0

\* The lookup a message makes: the payload field that carries the id, the
\* keys of the store it is looked up in, and the error of a miss.
C6_Lookup(msg) ==
    CASE serviceName = OrganizationServiceName /\ msg.type = "EXECUTE_MAINTENANCE" ->
            <<[field |-> "maintenanceId", keys |-> MapKeys(maintenanceTasks),
               error |-> "Maintenance task not found"]>>
      [] serviceName = TreasuryServiceName /\ msg.type = "UPDATE_PROFICIENCY" ->
            <<[field |-> "skillId", keys |-> MapKeys(motorMemoryStore),
               error |-> "Skill not found"]>>
      [] serviceName = TreasuryServiceName /\ msg.type = "INTEGRATE_SKILL" ->
            <<[field |-> "skillId", keys |-> MapKeys(learnedSkills),
               error |-> "Skill not found"]>>
      [] serviceName = DevelopmentServiceName /\ msg.type = "UPDATE_SKILL_PROGRESS" ->
            <<[field |-> "planId", keys |-> MapKeys(developmentPlans),
               error |-> "Plan not found"]>>
      [] OTHER -> <<>>

C6_Misses(msg) ==
    /\ C6_Lookup(msg) # <<>>
    /\ Has(msg.payload, C6_Lookup(msg)[1].field)
    /\ msg.payload[C6_Lookup(msg)[1].field] \notin C6_Lookup(msg)[1].keys

\* C6: when the looked-up id is not in the store, EXECUTE_MAINTENANCE,
\* UPDATE_PROFICIENCY, INTEGRATE_SKILL and UPDATE_SKILL_PROGRESS return an
\* envelope whose payload carries the error string and the requested id, do
\* not throw, and leave every store unchanged.
C6_SoftNotFound ==
    [][(IsCall /\ C6_Misses(req')) =>
          /\ IsEnvelope(resp')
          /\ Has(resp'.payload, "error")
          /\ resp'.payload.error = C6_Lookup(req')[1].error
          /\ resp'.payload[C6_Lookup(req')[1].field]
                = req'.payload[C6_Lookup(req')[1].field]
          /\ storeVars' = storeVars]_vars

\* UPDATE_SKILL_PROGRESS has missed its plan in a service that holds a plan.
C6_Witness ==
    /\ calls >= 2
    /\ Len(developmentPlans) > 0
    /\ req.type = "UPDATE_SKILL_PROGRESS"
    /\ Has(req.payload, "planId")
    /\ req.payload.planId = UnknownId
    /\ IsEnvelope(resp)
    /\ resp.type = "SKILL_PROGRESS_ERROR"

\* C8: for an existing motor memory UPDATE_PROFICIENCY stores
\* min(1, max(0, newProficiency)), keeps the old proficiency when the value
\* is absent, and reports change = stored new - old.
C8_UpdateStoresClamped ==
    [][(/\ IsCall
        /\ serviceName = TreasuryServiceName
        /\ req'.type = "UPDATE_PROFICIENCY"
        /\ Has(req'.payload, "skillId")
        /\ MapHas(motorMemoryStore, req'.payload.skillId)) =>
          LET old == MapGet(motorMemoryStore, req'.payload.skillId).proficiency
              stored == MapGet(motorMemoryStore', req'.payload.skillId).proficiency
          IN  /\ stored = IF Has(req'.payload, "newProficiency")
                          THEN Min(One, Max(0, req'.payload.newProficiency))
                          ELSE old
              /\ resp'.payload.change = stored - old]_vars

\* C9: every stored motor memory has proficiency within [0,1].
C9_ProficiencyInRange ==
    \A i \in 1..Len(motorMemoryStore) :
        /\ motorMemoryStore[i].proficiency >= 0
        /\ motorMemoryStore[i].proficiency <= One

IsAggregateStatus(msg) ==
    \/ msg.type = "GET_ORGANIZATION_STATUS" /\ ~Has(msg.payload, "organizationId")
    \/ msg.type = "GET_SKILL_INVENTORY"
    \/ msg.type = "GET_DEVELOPMENT_STATUS" /\ ~Has(msg.payload, "planId")

\* C10: an aggregate status handler called twice with the same payload and
\* no other process call in between returns the same counts and lists, even
\* when the clock advances between the two calls.
C10_AggregateStatusRepeatable ==
    [][(/\ IsCall
        /\ calls > 0
        /\ IsAggregateStatus(req)
        /\ req' = req
        /\ IsEnvelope(resp)) =>
          resp'.payload = resp.payload]_vars

----
\* C11: the status handlers GET_ORGANIZATION_STATUS, GET_SKILL_INVENTORY,
\* GET_DEVELOPMENT_STATUS, GET_QUALITY_METRICS, INTERFACE_STATUS and
\* GET_MARKET_INTELLIGENCE leave every store unchanged and return an
\* envelope in every reachable state; on an empty organization store the
\* overall health is 1.0, on an empty interface list the interface health is
\* 1.0, and on an empty assessment history the average score is 0.
StatusTypes ==
    {"GET_ORGANIZATION_STATUS", "GET_SKILL_INVENTORY", "GET_DEVELOPMENT_STATUS",
     "GET_QUALITY_METRICS", "INTERFACE_STATUS", "GET_MARKET_INTELLIGENCE"}

C11_StatusHandlersReadOnly ==
    [][(IsCall /\ req'.type \in StatusTypes \cap RecognizedTypes) =>
          /\ IsEnvelope(resp')
          /\ storeVars' = storeVars
          /\ calculateOverallHealth(<<>>) = [sum |-> One, count |-> 1]
          /\ calculateInterfaceHealth(<<>>) = [sum |-> One, count |-> 1]
          /\ (req'.type = "GET_QUALITY_METRICS" /\ assessmentHistory = <<>>) =>
                /\ resp'.payload.metrics.averageScore.sum = 0
                /\ resp'.payload.metrics.totalAssessments = 0
          /\ (req'.type = "GET_MARKET_INTELLIGENCE" /\ feedbackHistory = <<>>) =>
                resp'.payload.intelligence.summary.feedbackTrend = "insufficient data"
      ]_vars

\* A quality-metrics request answered on an empty assessment history, after
\* another call has been made.
C11_Witness ==
    /\ Answered("GET_QUALITY_METRICS")
    /\ serviceName = SalesServiceName
    /\ assessmentHistory = <<>>
    /\ resp.payload.metrics.averageScore.sum = 0
    /\ calls > 1

----
\* C12: right after the construction of the organization service and its
\* initialize(), the organization store holds exactly one organization,
\* named 'autonomic-core' and 'active', the coordination store exactly one
\* coordination, of type 'system-health', and the maintenance store is empty.
JustInitialized == calls = 0 \/ (calls = 1 /\ op = "initialize")

C12_DefaultOrganizationFramework ==
    (serviceName = OrganizationServiceName /\ JustInitialized) =>
        /\ Len(organizations) = 1
        /\ organizations[1].name = "autonomic-core"
        /\ organizations[1].status = "active"
        /\ Len(coordinations) = 1
        /\ coordinations[1].coordinationType = "system-health"
        /\ maintenanceTasks = <<>>

\* initialize() has run on the constructed organization service, at a later
\* clock value than the constructor.
C12_Witness ==
    /\ serviceName = OrganizationServiceName
    /\ calls = 1
    /\ op = "initialize"
    /\ now > 0
    /\ Len(organizations) = 1

----
\* C13: right after the construction of the treasury service and its
\* initialize(), the motor-memory store holds the four default skills
\* (basic-motor-control 0.9, sensory-motor-coordination 0.8,
\* adaptive-response 0.7, reflex-action 0.95) as four distinct entries,
\* whatever the clock read during seeding.
HoldsSkill(store, skill) ==
    \E i \in 1..Len(store) :
        /\ store[i].skillName = skill.name
        /\ store[i].proficiency = skill.proficiency

C13_FourDefaultSkills ==
    (serviceName = TreasuryServiceName /\ JustInitialized) =>
        /\ Len(motorMemoryStore) = Len(DefaultSkills)
        /\ \A k \in 1..Len(DefaultSkills) : HoldsSkill(motorMemoryStore, DefaultSkills[k])

----
\* C14: STORE_MOTOR_MEMORY of a skill named N with proficiency p leaves a
\* memory with that name and proficiency in the store, and a RETRIEVE_SKILL
\* whose skillName is a case-insensitive substring of a stored name (and
\* whose skillId matches nothing) returns a skill whose name contains the
\* query and whose proficiency is the highest among the stored memories whose
\* name contains the query, with confidence equal to that proficiency; on a
\* fresh service store('basic-motor-control', 0.9) then retrieve('basic')
\* gives 'basic-motor-control' with confidence 0.9.
Contains(name, query) == includes(toLowerCase(name), toLowerCase(query))

NameMatches(query) ==
    {i \in 1..Len(motorMemoryStore) : Contains(motorMemoryStore[i].skillName, query)}

IsNameQuery(msg) ==
    /\ serviceName = TreasuryServiceName
    /\ msg.type = "RETRIEVE_SKILL"
    /\ Has(msg.payload, "skillName")
    /\ ~(Has(msg.payload, "skillId") /\ MapHas(motorMemoryStore, msg.payload.skillId))

StoreKeepsNameAndProficiency ==
    (IsCall /\ serviceName = TreasuryServiceName /\ req'.type = "STORE_MOTOR_MEMORY") =>
        /\ MapHas(motorMemoryStore', resp'.payload.memory.id)
        /\ MapGet(motorMemoryStore', resp'.payload.memory.id).skillName
              = Get(req'.payload, "skillName", UnnamedSkill)
        /\ MapGet(motorMemoryStore', resp'.payload.memory.id).proficiency
              = Get(req'.payload, "proficiency", 50)

RetrievesBestMatch ==
    LET query == req'.payload.skillName
        result == resp'.payload.result
    IN  /\ result.skill # Null
        /\ Contains(result.skill[1].skillName, query)
        /\ \A i \in NameMatches(query) :
              motorMemoryStore[i].proficiency <= result.skill[1].proficiency
        /\ \E i \in NameMatches(query) :
              motorMemoryStore[i].proficiency = result.skill[1].proficiency
        /\ result.confidence = result.skill[1].proficiency

FreshStoreThenRetrieve ==
    (/\ calls = 1
     /\ Answered("STORE_MOTOR_MEMORY")
     /\ resp.payload.memory.skillName = BasicMotorControl
     /\ resp.payload.memory.proficiency = 90
     /\ IsCall
     /\ IsNameQuery(req')
     /\ req'.payload.skillName = BasicQuery) =>
        /\ resp'.payload.result.skill[1].skillName = BasicMotorControl
        /\ resp'.payload.result.confidence = 90

----
\* C15: after 1,100 feedback records have been pushed into a fresh market
\* service, the stored history holds exactly 500 records.
C15_AsStated ==
    (serviceName = MarketServiceName /\ calls = 1100) =>
        Len(feedbackHistory) = FeedbackKeep

\* C15 as the code has it: the push that makes the length FeedbackCap + 1
\* cuts the history to its last FeedbackKeep records, and every later push
\* adds one: n pushes leave n records up to FeedbackCap, and
\* FeedbackKeep + (n - FeedbackCap - 1) after that, 599 for n = 1,100.
C15_HistoryLengthAfterPushes ==
    /\ calls <= FeedbackCap => Len(feedbackHistory) = calls
    /\ (calls > FeedbackCap /\ calls <= FeedbackCap + FeedbackKeep) =>
          Len(feedbackHistory) = FeedbackKeep + (calls - FeedbackCap - 1)
    /\ calls = 1100 => Len(feedbackHistory) = 599
    /\ calls > 0 => resp.payload.historySize = Len(feedbackHistory)

C15_Witness ==
    /\ serviceName = MarketServiceName
    /\ calls = 1100
    /\ Answered("PROCESS_FEEDBACK")
    /\ Len(feedbackHistory) = 599
    /\ feedbackHistory[1].value = 2
    /\ feedbackHistory[599].value = 0

----
\* C16: an organization is 'optimizing' only inside one run of the
\* OPTIMIZE_ORGANIZATION handler: when the handler returns, the optimized
\* organization is 'active', and in no state between two calls does a
\* stored organization have the status 'optimizing'.
NoneOptimizing ==
    \A i \in 1..Len(organizations) : organizations[i].status # "optimizing"

OptimizesStored(msg) ==
    /\ serviceName = OrganizationServiceName
    /\ msg.type = "OPTIMIZE_ORGANIZATION"
    /\ Has(msg.payload, "organizationId")
    /\ MapHas(organizations, msg.payload.organizationId)

C16_OptimizingIsTransient ==
    /\ []NoneOptimizing
    /\ [][(IsCall /\ OptimizesStored(req')) =>
             /\ IsEnvelope(resp')
             /\ MapHas(organizations', req'.payload.organizationId)
             /\ MapGet(organizations', req'.payload.organizationId).status = "active"
         ]_vars

\* A stored organization has been optimized: its efficiency rose from 0.85
\* to 0.90 and its status is 'active'.
C16_Witness ==
    /\ serviceName = OrganizationServiceName
    /\ Answered("OPTIMIZE_ORGANIZATION")
    /\ op = "process"
    /\ calls = 2
    /\ resp.payload.organizationId # "all"
    /\ MapGet(organizations, resp.payload.organizationId).status = "active"
    /\ MapGet(organizations, resp.payload.organizationId).metrics.efficiency = 90

----
\* C17: a development plan is created with status 'planning', becomes
\* 'active' on the first UPDATE_SKILL_PROGRESS for it, and becomes
\* 'completed' exactly when an update leaves every stage with progress >=
\* 100; the status only advances planning -> active -> completed, never
\* backwards and never from 'planning' straight to 'completed'.
Rank(status) ==
    CASE status = "planning" -> 1
      [] status = "active" -> 2
      [] status = "completed" -> 3

AllStagesComplete(plan) ==
    \A k \in 1..Len(plan.stages) : plan.stages[k].progress >= 100

UpdatesStoredPlan(msg) ==
    /\ serviceName = DevelopmentServiceName
    /\ msg.type = "UPDATE_SKILL_PROGRESS"
    /\ Has(msg.payload, "planId")
    /\ MapHas(developmentPlans, msg.payload.planId)

C17_PlanStatusOrder ==
    [][/\ (IsCall /\ serviceName = DevelopmentServiceName
             /\ req'.type = "CREATE_DEVELOPMENT_PLAN") =>
             MapGet(developmentPlans', resp'.payload.plan.id).status = "planning"
       /\ (IsCall /\ UpdatesStoredPlan(req')) =>
             LET old == MapGet(developmentPlans, req'.payload.planId)
                 new == MapGet(developmentPlans', req'.payload.planId)
             IN  /\ Rank(new.status) >= Rank(old.status)
                 /\ old.status = "planning" => new.status = "active"
                 /\ old.status # "completed" =>
                       (new.status = "completed" <=> AllStagesComplete(new))
                 /\ resp'.payload.planStatus = new.status
      ]_vars

----
\* C18: initialize() is idempotent: called once, several times in a row, or
\* after any sequence of process calls, it leaves every store of the service
\* as it was before the call.
IsInitialize == calls' = calls + 1 /\ op' = "initialize"

C18_InitializeChangesNothing ==
    [][IsInitialize =>
          /\ storeVars' = storeVars
          /\ req' = req
          /\ resp' = resp
          /\ now' = now
      ]_vars

\* initialize() has run on a treasury service in which earlier calls had
\* logged a skill access.
C18_Witness ==
    /\ serviceName = TreasuryServiceName
    /\ op = "initialize"
    /\ calls = MaxCalls
    /\ Len(accessLog) > 0
    /\ req.type = "RETRIEVE_SKILL"

----
\* C19: when shutdown() returns on the organization service, every stored
\* organization has status 'inactive' and nothing else in any store has
\* changed; on the treasury service the shared status is 'shutting-down'.
IsShutdown == calls' = calls + 1 /\ op' = "shutdown"

C19_ShutdownMarksInactive ==
    [][/\ (IsShutdown /\ serviceName = OrganizationServiceName) =>
             /\ Len(organizations') = Len(organizations)
             /\ \A i \in 1..Len(organizations) :
                   /\ organizations'[i].status = "inactive"
                   /\ organizations'[i] = [organizations[i] EXCEPT !.status = "inactive"]
             /\ UNCHANGED <<coordinations, maintenanceTasks, systemHealth>>
             /\ UNCHANGED <<treasuryVars, devVars, marketVars, salesVars>>
       /\ (IsShutdown /\ serviceName = TreasuryServiceName) =>
             /\ treasuryShared'.status = "shutting-down"
             /\ \A k \in DOMAIN treasuryShared \ {"status"} :
                   treasuryShared'[k] = treasuryShared[k]
             /\ UNCHANGED <<motorMemoryStore, learnedSkills, accessLog>>
      ]_vars

\* shutdown() has run on an organization service that holds two
\* organizations, one of them created by a request.
C19_Witness ==
    /\ serviceName = OrganizationServiceName
    /\ op = "shutdown"
    /\ Len(organizations) = 2
    /\ \A i \in 1..Len(organizations) : organizations[i].status = "inactive"
    /\ Len(maintenanceTasks) > 0

----
\* C20: with several process invocations in flight that interleave only at
\* their await points, every handler does all its store reads and writes in
\* one uninterrupted step: no invocation can observe a maintenance task that
\* is 'in-progress', a resumed handler touches no store, and after each of
\* two concurrent EXECUTE_MAINTENANCE calls on one task the task's status,
\* completedAt and results agree with each other.
NoneInProgress ==
    \A k \in 1..Len(maintenanceTasks) : maintenanceTasks[k].status # "in-progress"

ExecutedConsistently(m) ==
    /\ m.completedAt # Null
    /\ m.status = IF m.results.success THEN "completed" ELSE "failed"
    /\ m.results.success = (m.results.issuesResolved >= m.results.issuesFound)

Awaiting(i) == inflight[i] # Idle

C20_HandlersRunUninterrupted ==
    /\ [](NoneInProgress /\ C4_ExecutedTasksConsistent)
    /\ [][/\ \A i \in 1..MaxInFlight :
                (Awaiting(i) /\ ~Awaiting(i)') =>
                   /\ storeVars' = storeVars
                   /\ IsEnvelope(resp')
                   /\ resp'.payload.results = inflight[i].results
                   /\ resp'.payload.processingTime >= 0
          /\ \A i \in 1..MaxInFlight :
                (~Awaiting(i) /\ Awaiting(i)') =>
                   /\ ExecutedConsistently(MapGet(maintenanceTasks', inflight'[i].maintenanceId))
                   /\ MapGet(maintenanceTasks', inflight'[i].maintenanceId).results
                         = inflight'[i].results
         ]_vars

\* Two EXECUTE_MAINTENANCE invocations are suspended on the same task with
\* different results: the task holds those of the one that ran last.
C20_Witness ==
    /\ Awaiting(1)
    /\ Awaiting(2)
    /\ inflight[1].maintenanceId = inflight[2].maintenanceId
    /\ inflight[1].results.success
    /\ ~inflight[2].results.success
    /\ MapGet(maintenanceTasks, inflight[1].maintenanceId).status = "failed"

----
\* C21: SYNC_WITH_STATE_MANAGEMENT changes no store and suspends nothing; it
\* returns a STATE_MANAGEMENT_SYNCED envelope whose syncResult names the
\* target service 'state-management-service', whose dataSynced lists every
\* stored organization (same ids, names and statuses, in store order) and
\* whose pendingMaintenance is the number of stored tasks in status
\* 'scheduled'.
ScheduledTasks == {i \in DOMAIN maintenanceTasks : maintenanceTasks[i].status = "scheduled"}

IsSync ==
    IsCall /\ serviceName = OrganizationServiceName
           /\ req'.type = "SYNC_WITH_STATE_MANAGEMENT"

C21_SyncReadsOnly ==
    [][IsSync =>
          /\ storeVars' = storeVars
          /\ inflight' = inflight
          /\ IsEnvelope(resp')
          /\ resp'.type = "STATE_MANAGEMENT_SYNCED"
          /\ LET r == resp'.payload.syncResult IN
                /\ r.targetService = "state-management-service"
                /\ Len(r.dataSynced.organizations) = Len(organizations)
                /\ \A i \in DOMAIN organizations :
                      /\ r.dataSynced.organizations[i].id = organizations[i].id
                      /\ r.dataSynced.organizations[i].name = organizations[i].name
                      /\ r.dataSynced.organizations[i].status = organizations[i].status
                /\ r.dataSynced.pendingMaintenance = Cardinality(ScheduledTasks)
      ]_vars

\* A synchronisation answered while the maintenance store holds a task that
\* is no longer scheduled, so the pending count is below the store's size.
C21_Witness ==
    /\ Answered("SYNC_WITH_STATE_MANAGEMENT")
    /\ Len(maintenanceTasks) > 0
    /\ resp.payload.syncResult.dataSynced.pendingMaintenance < Len(maintenanceTasks)
    /\ Len(resp.payload.syncResult.dataSynced.organizations) = Len(organizations)

----
\* C22: a process call changes at most one entry over all stores of the
\* service together (entries of maps, records of logs and shared-state
\* entries).  As stated this fails; what holds is that a call changes at
\* most one entry of each store and at most two entries in all, the second
\* one being a log record or a shared-state entry, except for the feedback
\* history, which a push over its cap cuts down as a whole.
EntriesChanged(before, after) ==
    Cardinality({k \in DOMAIN before \cup DOMAIN after :
                    \/ k \notin DOMAIN before
                    \/ k \notin DOMAIN after
                    \/ before[k] # after[k]})

MapsChanged ==
    EntriesChanged(organizations, organizations')
    + EntriesChanged(coordinations, coordinations')
    + EntriesChanged(maintenanceTasks, maintenanceTasks')
    + EntriesChanged(motorMemoryStore, motorMemoryStore')
    + EntriesChanged(learnedSkills, learnedSkills')
    + EntriesChanged(developmentPlans, developmentPlans')
    + EntriesChanged(resourceAllocations, resourceAllocations')
    + EntriesChanged(marketSegments, marketSegments')
    + EntriesChanged(externalInterfaces, externalInterfaces')
    + EntriesChanged(qualityThresholds, qualityThresholds')
    + EntriesChanged(promotionChannels, promotionChannels')

LogsChanged ==
    EntriesChanged(accessLog, accessLog')
    + EntriesChanged(optimizationHistory, optimizationHistory')
    + EntriesChanged(feedbackHistory, feedbackHistory')
    + EntriesChanged(assessmentHistory, assessmentHistory')

SharedChanged ==
    EntriesChanged(systemHealth, systemHealth')
    + EntriesChanged(treasuryShared, treasuryShared')
    + EntriesChanged(devShared, devShared')
    + EntriesChanged(marketIntelligence, marketIntelligence')

----
\* C23: a fault raised inside a handler comes out of process, and every store
\* of the service is as it was before the call; ASSESS_QUALITY without an
\* output, PROMOTE_OUTPUT without a content and CREATE_ORGANIZATION whose
\* components is not a list each raise such a fault.
RaisesFault ==
    \/ /\ serviceName = SalesServiceName
       /\ \/ req'.type = "ASSESS_QUALITY" /\ ~Has(req'.payload, "output")
          \/ req'.type = "PROMOTE_OUTPUT" /\ ~Has(req'.payload, "content")
    \/ /\ serviceName = OrganizationServiceName
       /\ req'.type = "CREATE_ORGANIZATION"
       /\ Has(req'.payload, "components")
       /\ ~req'.payload.components.isList

C23_FaultLeavesStoresUntouched ==
    [][IsCall =>
          /\ RaisesFault => resp' = Thrown
          /\ resp' = Thrown => storeVars' = storeVars /\ inflight' = inflight
      ]_vars

\* An assessment request without an output failed after an earlier
\* assessment had been recorded: the record is still there.
C23_Witness ==
    /\ resp = Thrown
    /\ req.type = "ASSESS_QUALITY"
    /\ ~Has(req.payload, "output")
    /\ Len(assessmentHistory) > 0

----
\* C24: the host answers a soft not-found with status 200 and the handler's
\* payload, error field included, and answers a fault raised by process with
\* status 500 and the body {error: 'Internal server error'} and nothing
\* else; a reply has status 500 exactly when process raised.
SoftError(r) == IsEnvelope(r) /\ Has(r.payload, "error")
InternalServerError == [status |-> 500, body |-> [error |-> "Internal server error"]]

C24_HostKeepsFaultsApart ==
    [][IsCall =>
          /\ SoftError(resp') =>
                /\ res'.status = 200
                /\ res'.body = resp'.payload
                /\ Has(res'.body, "error")
          /\ resp' = Thrown => res' = InternalServerError
          /\ res'.status = 500 <=> resp' = Thrown
      ]_vars

\* POST /execute with an id that is not in the store, answered with status
\* 200 and the error 'Maintenance task not found'.
C24_Witness ==
    /\ Answered("EXECUTE_MAINTENANCE")
    /\ SoftError(resp)
    /\ res.status = 200
    /\ res.body.error = "Maintenance task not found"
    /\ res.body.maintenanceId = UnknownId

----
\* C25: the host's reply for a none result of process differs in kind (its
\* status, and whether its body carries an error field) from its reply for
\* a soft-error payload.
ReplyKind(reply) == [status |-> reply.status, carriesError |-> Has(reply.body, "error")]

----
\* C26: every path of the README's service-discovery list is proxied by
\* the gateway to the service the README names for it, and a request that
\* matches no route of the gateway is answered 404 'Endpoint not found'.
IsRequest == calls' = calls + 1 /\ op' = "request"
IsForwarded(reply) == Has(reply, "target")

C26_DiscoveryListIsProxied ==
    [][IsRequest =>
          /\ \A d \in ServiceDiscovery :
                req'.path = d.path =>
                    \/ /\ IsForwarded(res')
                       /\ res'.triad = d.path[1]
                       /\ res'.serviceType = d.serviceType
                    \/ /\ ~IsForwarded(res')
                       /\ res'.status = 503
          /\ (~IsLocal(req') /\ Mounts(req') = {}) =>
                /\ res'.status = 404
                /\ res'.body.error = "Endpoint not found"
      ]_vars

----
\* C27: when a create request (CREATE_ORGANIZATION, COORDINATE_BACKGROUND,
\* SCHEDULE_MAINTENANCE, STORE_MOTOR_MEMORY, CREATE_DEVELOPMENT_PLAN,
\* REGISTER_INTERFACE) is handled right after a create request of the same
\* kind and at the clock value of that one, it is given the same id: the
\* store then holds the second entity under that id, the first is gone, and
\* the second call added no entry, so the two requests have one entry
\* between them.
CreateKinds ==
    {"CREATE_ORGANIZATION", "COORDINATE_BACKGROUND", "SCHEDULE_MAINTENANCE",
     "STORE_MOTOR_MEMORY", "CREATE_DEVELOPMENT_PLAN", "REGISTER_INTERFACE"}

CreatedBy(kind, r) ==
    CASE kind = "CREATE_ORGANIZATION" -> r.payload.organization
      [] kind = "COORDINATE_BACKGROUND" -> r.payload.coordination
      [] kind = "SCHEDULE_MAINTENANCE" -> r.payload.maintenance
      [] kind = "STORE_MOTOR_MEMORY" -> r.payload.memory
      [] kind = "CREATE_DEVELOPMENT_PLAN" -> r.payload.plan
      [] kind = "REGISTER_INTERFACE" -> r.payload.interface

StoreOfKind(kind) ==
    CASE kind = "CREATE_ORGANIZATION" -> organizations
      [] kind = "COORDINATE_BACKGROUND" -> coordinations
      [] kind = "SCHEDULE_MAINTENANCE" -> maintenanceTasks
      [] kind = "STORE_MOTOR_MEMORY" -> motorMemoryStore
      [] kind = "CREATE_DEVELOPMENT_PLAN" -> developmentPlans
      [] kind = "REGISTER_INTERFACE" -> externalInterfaces

\* The step is a successful create of the kind, and so was the call before
\* it, whose id was generated at the present clock value.
SecondOfTwo(kind) ==
    /\ IsCall
    /\ op = "process"
    /\ req.type = kind /\ IsEnvelope(resp)
    /\ req'.type = kind /\ IsEnvelope(resp')
    /\ CreatedBy(kind, resp).id[2] = now

----
\* C28: no step of a service removes an entity: every id that is a key of
\* the organizations, coordinations, maintenance tasks, motor memories,
\* learned skills, development plans or external interfaces is still a key
\* after the step, and no store gets smaller.
KeysKept(before, after) ==
    /\ MapKeys(before) \subseteq MapKeys(after)
    /\ Len(before) <= Len(after)

C28_NoEntityRemoved ==
    [][/\ KeysKept(organizations, organizations')
       /\ KeysKept(coordinations, coordinations')
       /\ KeysKept(maintenanceTasks, maintenanceTasks')
       /\ KeysKept(motorMemoryStore, motorMemoryStore')
       /\ KeysKept(learnedSkills, learnedSkills')
       /\ KeysKept(developmentPlans, developmentPlans')
       /\ KeysKept(externalInterfaces, externalInterfaces')
      ]_vars

\* Three calls later the organization seeded at construction is still in
\* the store, next to one created at a later clock value.
C28_Witness ==
    /\ serviceName = OrganizationServiceName
    /\ calls = MaxCalls
    /\ Len(organizations) = 2
    /\ MapHas(organizations, Id("org", 0))
    /\ MapGet(organizations, Id("org", 0)).name = "autonomic-core"

----
\* C29: between two PROCESS_FEEDBACK calls the stored history never holds
\* more than 1,000 records; the push that makes it 1,001 long leaves exactly
\* the 500 most recent records, in their order of arrival and ending with
\* the record just pushed; and every response reports the stored length as
\* historySize.
IsFeedback == IsCall /\ req'.type = "PROCESS_FEEDBACK"

C29_HistoryCapped ==
    /\ [](Len(feedbackHistory) <= FeedbackCap)
    /\ [][IsFeedback =>
            /\ resp'.payload.historySize = Len(feedbackHistory')
            /\ Len(feedbackHistory) = FeedbackCap =>
                  /\ Len(feedbackHistory') = FeedbackKeep
                  /\ \A i \in 1..(FeedbackKeep - 1) :
                        feedbackHistory'[i] =
                            feedbackHistory[FeedbackCap - FeedbackKeep + 1 + i]
                  /\ feedbackHistory'[FeedbackKeep] = resp'.payload.feedback
        ]_vars

\* The 1,001st push has just been answered: the history starts with the
\* 502nd record and ends with the 1,001st.
C29_Witness ==
    /\ Answered("PROCESS_FEEDBACK")
    /\ calls = FeedbackCap + 1
    /\ Len(feedbackHistory) = FeedbackKeep
    /\ resp.payload.historySize = FeedbackKeep
    /\ feedbackHistory[1].value = 2
    /\ feedbackHistory[FeedbackKeep].value = 1

----
\* C30: OPTIMIZE_ORGANIZATION with the id of a stored organization leaves
\* each of its four metrics at least as high as before and at most 1; the
\* same holds of the improvement itself for every starting value of a
\* metric between 0 and 1.
MetricNames == {"efficiency", "coordination", "responsiveness", "stability"}

OptimizesStoredOrganization ==
    /\ IsCall
    /\ serviceName = OrganizationServiceName
    /\ req'.type = "OPTIMIZE_ORGANIZATION"
    /\ Has(req'.payload, "organizationId")
    /\ MapHas(organizations, req'.payload.organizationId)

C30_OptimizeRaisesWithinRange ==
    [][OptimizesStoredOrganization =>
          LET before == MapGet(organizations, req'.payload.organizationId).metrics
              after == MapGet(organizations', req'.payload.organizationId).metrics
          IN  \A f \in MetricNames :
                 /\ after[f] >= before[f]
                 /\ after[f] <= One
                 /\ \A v \in 0..One :
                       /\ improvedMetrics([before EXCEPT ![f] = v])[f] >= v
                       /\ improvedMetrics([before EXCEPT ![f] = v])[f] <= One
      ]_vars

\* An organization optimized three times: its responsiveness went from
\* 0.80 to 0.92 and its efficiency from 0.85 to 0.90, where it stays.
C30_Witness ==
    /\ Answered("OPTIMIZE_ORGANIZATION")
    /\ Has(req.payload, "organizationId")
    /\ MapHas(organizations, req.payload.organizationId)
    /\ MapGet(organizations, req.payload.organizationId).metrics =
          [efficiency |-> 90, coordination |-> 90, responsiveness |-> 92,
           stability |-> 95]

----
\* C31: repeated OPTIMIZE_ORGANIZATION on one organization converges: a call
\* on an organization that is not yet at its thresholds (efficiency,
\* coordination, responsiveness 0.9, stability 0.95) brings it one call
\* nearer to them, and a call on an organization that is at them applies no
\* optimization and changes no metric; an organization as createOrganization
\* builds it is there after three calls.
Threshold(f) == IF f = "stability" THEN 95 ELSE 90
Gain(f) ==
    CASE f = "efficiency" -> 5 [] f = "coordination" -> 3
      [] f = "responsiveness" -> 4 [] f = "stability" -> 2

\* The number of calls a metric of value v still takes to reach its
\* threshold, and the largest such number over the four metrics.
CallsLeft(f, v) ==
    IF v >= Threshold(f) THEN 0 ELSE CeilDiv(Threshold(f) - v, Gain(f))
Remaining(m) ==
    CHOOSE n \in 0..One :
        /\ \A f \in MetricNames : CallsLeft(f, m[f]) <= n
        /\ \E f \in MetricNames : CallsLeft(f, m[f]) = n
Converged(m) == \A f \in MetricNames : m[f] >= Threshold(f)

ConvergesFrom(m) ==
    /\ Remaining(m) > 0 => Remaining(improvedMetrics(m)) = Remaining(m) - 1
    /\ Converged(m) <=> Remaining(m) = 0
    /\ Converged(m) =>
          /\ improvedMetrics(m) = m
          /\ appliedOptimizations(m) = <<>>

C31_OptimizeConverges ==
    [][OptimizesStoredOrganization =>
          LET before == MapGet(organizations, req'.payload.organizationId).metrics
              after == MapGet(organizations', req'.payload.organizationId).metrics
          IN  /\ ConvergesFrom(before)
              /\ Remaining(before) > 0 => Remaining(after) = Remaining(before) - 1
              /\ Converged(before) =>
                    /\ after = before
                    /\ resp'.payload.optimizations.appliedOptimizations = <<>>
              /\ \A f \in MetricNames : \A v \in 0..One :
                    ConvergesFrom([before EXCEPT ![f] = v])
      ]_vars

\* The fourth call on the organization seeded at construction: it had
\* converged with the third, and this call applied nothing.
C31_Witness ==
    /\ Answered("OPTIMIZE_ORGANIZATION")
    /\ calls = 4
    /\ Has(req.payload, "organizationId")
    /\ req.payload.organizationId = Id("org", 0)
    /\ MapGet(organizations, Id("org", 0)).metrics =
          [efficiency |-> 90, coordination |-> 90, responsiveness |-> 92,
           stability |-> 95]
    /\ resp.payload.optimizations.appliedOptimizations = <<>>

----
\* C32: in every reachable state of the Development service a plan has
\* status 'completed' only if every one of its stages has progress >= 100,
\* also after further UPDATE_SKILL_PROGRESS calls on a completed plan.
StagesComplete(plan) ==
    \A k \in 1..Len(plan.stages) : plan.stages[k].progress >= 100

C32_CompletedMeansAllStagesDone ==
    \A k \in 1..Len(developmentPlans) :
        developmentPlans[k].status = "completed" => StagesComplete(developmentPlans[k])

----
\* C33: in every reachable state of the Development service every stage's
\* progress lies in 0..100, whatever progress value an UPDATE_SKILL_PROGRESS
\* payload requests.
C33_ProgressWithinRange ==
    \A k \in 1..Len(developmentPlans) :
        \A j \in 1..Len(developmentPlans[k].stages) :
            developmentPlans[k].stages[j].progress \in 0..100

----
----
\* C35: ALLOCATE_RESOURCES never over-allocates: whatever amount is requested
\* (zero, negative, more than is left), every record has 0 <= available <=
\* 100 and 0 <= allocated <= 100.
C35_NeverOverAllocates ==
    \A k \in 1..Len(resourceAllocations) :
        LET record == resourceAllocations[k].value
        IN  /\ record.available \in 0..PoolSize
            /\ record.allocated \in 0..PoolSize

----
\* C36: once shutdown() has run on the Organization service, 'inactive' is
\* terminal: the step that follows it neither puts an organization into
\* status 'active' nor adds an organization that is 'active'.
C36_InactiveIsTerminal ==
    [][(serviceName = OrganizationServiceName /\ op = "shutdown")
          => \A k \in 1..Len(organizations') : organizations'[k].status # "active"
      ]_vars

----
\* C37: every RETRIEVE_SKILL call appends exactly one access-log record,
\* whose success flag says whether a skill was returned; it increments
\* accessCount by one on the returned memory and changes no other memory;
\* when nothing matches, the result has skill null and confidence 0 and no
\* memory changes; a skillId that is in the store decides the result
\* whatever skillName comes with it.
OnlyAccessed(before, after, id) ==
    /\ Len(after) = Len(before)
    /\ \A i \in 1..Len(before) :
          IF before[i].id = id
          THEN /\ after[i].accessCount = before[i].accessCount + 1
               /\ [after[i] EXCEPT !.lastAccessed = 0, !.accessCount = 0]
                  = [before[i] EXCEPT !.lastAccessed = 0, !.accessCount = 0]
          ELSE after[i] = before[i]

C37_RetrieveEffect ==
    [][(IsCall /\ IsEnvelope(resp') /\ req'.type = "RETRIEVE_SKILL") =>
          LET p == req'.payload
              result == resp'.payload.result
              returned == result.skill # Null
          IN  /\ Len(accessLog') = Len(accessLog) + 1
              /\ SubSeq(accessLog', 1, Len(accessLog)) = accessLog
              /\ accessLog'[Len(accessLog')].success = returned
              /\ returned =>
                    /\ OnlyAccessed(motorMemoryStore, motorMemoryStore', result.skill[1].id)
                    /\ MapHas(motorMemoryStore, result.skill[1].id)
                    /\ result.skill[1] = MapGet(motorMemoryStore', result.skill[1].id)
              /\ ~returned =>
                    /\ result.confidence = 0
                    /\ motorMemoryStore' = motorMemoryStore
              /\ (Has(p, "skillId") /\ MapHas(motorMemoryStore, p.skillId)) =>
                    /\ returned
                    /\ result.skill[1].id = p.skillId
      ]_vars

\* A call whose skillId names one stored memory while its skillName would
\* find another: the memory of the id was returned.
C37_Witness ==
    /\ Answered("RETRIEVE_SKILL")
    /\ Has(req.payload, "skillId") /\ Has(req.payload, "skillName")
    /\ MapHas(motorMemoryStore, req.payload.skillId)
    /\ SearchByName(motorMemoryStore, 1, req.payload.skillName, 0) # 0
    /\ motorMemoryStore[SearchByName(motorMemoryStore, 1, req.payload.skillName, 0)].id
          # req.payload.skillId
    /\ resp.payload.result.skill # Null
    /\ resp.payload.result.skill[1].id = req.payload.skillId
    /\ accessLog[Len(accessLog)].success

----
\* C38: in every reachable state of the Market service every external
\* interface, seeded or registered, has status 'active'; the interfaceHealth
\* that GET_MARKET_INTELLIGENCE reports is therefore 1.0, and INTERFACE_STATUS
\* without an id reports totalActive = totalInterfaces.
C38_InterfacesAlwaysActive ==
    /\ \A k \in 1..Len(externalInterfaces) : externalInterfaces[k].status = "active"
    /\ Answered("GET_MARKET_INTELLIGENCE") =>
          LET health == resp.payload.intelligence.summary.interfaceHealth
          IN  health.sum = One * health.count
    /\ (Answered("INTERFACE_STATUS") /\ ~Has(req.payload, "interfaceId")) =>
          /\ resp.payload.totalActive = resp.payload.totalInterfaces
          /\ resp.payload.totalInterfaces = Len(externalInterfaces)

\* INTERFACE_STATUS without an id, answered after an interface was
\* registered next to the seeded ones.
C38_Witness ==
    /\ Answered("INTERFACE_STATUS")
    /\ ~Has(req.payload, "interfaceId")
    /\ resp.payload.totalInterfaces > Len(DefaultInterfaces)
    /\ \E k \in 1..Len(externalInterfaces) : externalInterfaces[k].id[1] = "iface"

----
\* C39: in the Sales service the assessment history, empty at construction,
\* grows by one record with every ASSESS_QUALITY call that returns a
\* response and is left as it is by every other step (CHECK_MARKET_READINESS,
\* OPTIMIZE_FOR_MARKET, PROMOTE_OUTPUT, GET_QUALITY_METRICS, a call that
\* throws); GET_QUALITY_METRICS reports its length as totalAssessments,
\* which is thus the number of ASSESS_QUALITY calls answered so far.
Assessed == IsCall /\ IsEnvelope(resp') /\ req'.type = "ASSESS_QUALITY"

C39_OnlyAssessQualityAppends ==
    /\ assessmentHistory = <<>>
    /\ [][IF Assessed
          THEN /\ Len(assessmentHistory') = Len(assessmentHistory) + 1
               /\ SubSeq(assessmentHistory', 1, Len(assessmentHistory)) = assessmentHistory
               /\ assessmentHistory'[Len(assessmentHistory')] = resp'.payload.assessment
          ELSE assessmentHistory' = assessmentHistory
        ]_vars
    /\ [](Answered("GET_QUALITY_METRICS") =>
            resp.payload.metrics.totalAssessments = Len(assessmentHistory))

\* The third call, GET_QUALITY_METRICS, reports the one assessment recorded
\* by the two calls before it.
C39_Witness ==
    /\ Answered("GET_QUALITY_METRICS")
    /\ calls = 3
    /\ resp.payload.metrics.totalAssessments = 1
    /\ Len(assessmentHistory) = 1

----
\* C40: for every PROCESS_FEEDBACK record, actionRequired is true exactly
\* when trend is 'declining', and trend is other than 'stable' only if the
\* history held, before the call, at least three records with the source
\* the new record is stored under; a record sent without a source is stored
\* under 'unknown', and the same holds of it.
EarlierOfSource(history, source) ==
    LET SameSource(f) == f.source = source
    IN  Len(SelectSeq(history, SameSource))

C40_TrendNeedsThreeEarlier ==
    [][IsFeedback =>
          LET feedback == resp'.payload.feedback
          IN  /\ feedback.actionRequired <=> feedback.trend = "declining"
              /\ feedback.trend # "stable" =>
                    EarlierOfSource(feedbackHistory, feedback.source) >= MinPreviousValues
              /\ ~Has(req'.payload, "source") => feedback.source = "unknown"
              /\ feedbackHistory'[Len(feedbackHistory')] = feedback
      ]_vars

\* Three records sent without a source, then one sent with the source
\* 'unknown' and a lower value: it is found declining against those three.
C40_Witness ==
    /\ Answered("PROCESS_FEEDBACK")
    /\ Has(req.payload, "source") /\ req.payload.source = "unknown"
    /\ Len(feedbackHistory) = 4
    /\ \A i \in 1..3 : feedbackHistory[i].source = "unknown" /\ feedbackHistory[i].value = 99
    /\ resp.payload.feedback.trend = "declining"
    /\ resp.payload.feedback.actionRequired

====
